---- MODULE Spec2Model ----
(***************************************************************************)
(* Control plane of the VPN subscription platform (api crate) and its     *)
(* traffic pipeline.  The relational store is modelled at READ COMMITTED: *)
(* a transaction buffers its writes in tx[p] and publishes them at        *)
(* COMMIT; SELECT ... FOR UPDATE and UPDATE wait for the row lock of the   *)
(* user row; a plain SELECT reads the committed row without waiting.      *)
(***************************************************************************)
EXTENDS Integers, Sequences, FiniteSets, TLC

(* ------------------------------ bounds -------------------------------- *)
\* requests the API serves in one behaviour
MaxOps == 2
\* entries appended to traffic_stream in one behaviour
MaxStream == 2
\* admin traffic adjustments served in one behaviour
MaxTrafficOps == 1
\* coin_balance every user starts with (credited before the behaviour starts)
InitBalance == 20
LowBalance == 15
\* /sub/{token} requests served in one behaviour
MaxFetches == 2
\* admin node updates served in one behaviour
MaxNodeUpdates == 1
\* the clock advances in steps of TickSeconds, up to MaxClock
TickSeconds == 200
MaxClock == 400
\* expires_at of the package user 1 holds when the subscription behaviours start
PackageExpiresAt == 300
\* the in-flight budget for detached tasks the platform asks for (1024), scaled down
MaxInFlight == 1
\* rounds of the agent's user-sync loop in one behaviour
MaxPolls == 2
\* subscription tokens generated in one behaviour
MaxTokens == 2
\* requests one user sends in one behaviour
MaxRequests == 61
MaxHeartbeats == 2
MaxReads == 1
MaxPackageUpdates == 1
MaxSyncs == 2
MaxBytes == 3
MaxUserReads == 2

Users == {1, 2}
Procs == {1, 2}
Workers == {1, 2}
NoUser == 0
NoProc == 0
Fetchers == {1}
NodeIds == {1, 2}
\* tokens are numbered in the order generate_subscription_token produces them;
\* NoToken is a token without a row; the /sub/{token} requests of a behaviour
\* name the first token or NoToken
NoToken == 0
Tokens == {1, NoToken}

\* users.referred_by: user 2 registered with the referral code of user 1
ReferredBy(u) == IF u = 2 THEN 1 ELSE NoUser

\* packages table: (price, traffic_amount, duration_days, is_active)
PackageTable ==
  << [price |-> 10, traffic_amount |-> 3, duration_days |-> 30, is_active |-> TRUE],
     [price |-> 5,  traffic_amount |-> 1, duration_days |-> 30, is_active |-> TRUE],
     [price |-> 10, traffic_amount |-> 3, duration_days |-> 30, is_active |-> FALSE],
     [price |-> 5,  traffic_amount |-> 0, duration_days |-> 60, is_active |-> TRUE] >>
Packages == DOMAIN PackageTable

\* amounts the admin balance endpoint, add_coins and deduct_coins are called with
AdminAmounts == {-15, 10}
CoinAmounts == {0, 10}

\* rebate_percentage = 0.10, as a percentage
RebatePercent == 10

\* TrafficProcessor::new: batch_size
batch_size == 100

\* conn.set_ex(&key, config, 300): the TTL of subscription:{token}, in seconds
SubscriptionTtl == 300

\* rate_limit_middleware: EXPIRE .. 60 and current_count > 60
RateWindow == 60
RateLimit == 60
ActiveNodesTtl == 60

\* stream entries: `parses` says that all five fields hold a decimal i64
StreamEntry(parses, user_id, upload, download) ==
  [parses |-> parses, user_id |-> user_id, upload |-> upload, download |-> download]
Tuples == {StreamEntry(TRUE, 1, 1, 2), StreamEntry(TRUE, 2, -1, 0),
           StreamEntry(FALSE, 1, 0, 0)}

\* payload of the admin traffic endpoint: <<>> is an absent field, <<v>> a value
TrafficPayloads == {[traffic_quota |-> <<0>>, traffic_used |-> <<>>],
                    [traffic_quota |-> <<>>, traffic_used |-> <<0>>],
                    [traffic_quota |-> <<>>, traffic_used |-> <<-1>>]}

VARIABLES
  users,              \* users table: id -> row
  orders,             \* orders table, in commit order
  coin_transactions,  \* coin_transactions table, in commit order
  user_packages,      \* user_packages table, in commit order
  order_seq,          \* orders_id_seq: last id handed out
  rowlock,            \* users row lock: id -> transaction holding it
  tx,                 \* per request: the writes of its open transaction
  pc,                 \* per request: position in its handler
  loc,                \* per request: the handler's local variables
  ops,                \* requests started so far
  reported,           \* per user: sum of the balance deltas of the operations that returned Ok
  stream,             \* traffic_stream: the entries appended, the stream id is the index
  delivered,          \* consumer group traffic_processor: last-delivered id
  pending,            \* the group's pending entries list: ids delivered and not acknowledged
  acked,              \* ids acknowledged with XACK
  wpc,                \* per aggregator worker: position in process_batch
  wloc,               \* per aggregator worker: message_ids, aggregated, the users left to update
  applied,            \* per user: total the aggregator has added to traffic_used
  times,              \* per stream id: how often its tuple was added to traffic_used
  delivery_count,     \* the pending entries list's delivery counter: per stream id, its deliveries
  nodes,              \* nodes table: id -> status
  node_updates,       \* admin node updates served so far
  cache,              \* Redis keys subscription:{token}: token -> entry
  now,                \* the clock, in seconds since the start of the behaviour
  fpc,                \* per /sub/{token} request task: position in the handler
  floc,               \* per /sub/{token} request task: the handler's local variables
  fetches,            \* /sub/{token} requests started so far
  tasks,              \* detached tasks spawned by log_access_async and not yet finished
  access_logs,        \* access_logs table: the distinct (user_id, status) of its rows
  subscriptions,      \* subscriptions table: user_id -> token, NoToken without a row
  token_seq,          \* tokens generate_subscription_token has produced so far
  lpc,                \* per /api/subscription/link request: position in the handler
  lloc,               \* per /api/subscription/link request: the handler's local variables
  links,              \* the (user_id, token) pairs the link endpoint has returned
  rejected,           \* the admin requests answered by the authorization check: (credential, http)
  rate_limit,         \* Redis keys rate_limit:user:{id}: user -> (count, expires_at)
  let_through,        \* per user and instant: requests that reached a handler
  node_rev,           \* nodes table: id -> number of admin updates of the row
  agent,              \* per node agent: started, subscribed, notifications waiting, revision applied
  published,          \* Redis PUBLISH commands issued: (channel, node_id), in order
  packages,           \* packages table: id -> row
  active_users,       \* per node agent: UserManager.active_users
  xray,               \* per node agent: the engine's traffic counter of each user
  nodes_active,       \* Redis key nodes:active: the cached list of online nodes
  hpc,                \* per heartbeat request: position in node_heartbeat_handler
  hloc,               \* per heartbeat request: the handler's local variables
  heartbeats,         \* heartbeat requests started so far
  rpc,                \* position of a call of get_active_nodes_with_cache
  rloc,               \* the list that call read from the nodes table
  reads,              \* calls of get_active_nodes_with_cache started so far
  package_updates,    \* changes of packages rows made so far
  users_lock,         \* per node agent: a task holds the write half of the RwLock of active_users
  spc,                \* per node agent: position of sync_active_users
  sloc,               \* per node agent: the users of the response still to be looked at
  complete,           \* per node agent: active_users as the last completed sync left it
  observed,           \* the last result of a reader of active_users: (node, set), and the complete set at that moment
  syncs,              \* rounds of the sync loop started so far
  user_reads,         \* reads of active_users made so far
  tpc,                \* per node agent: position of collect_and_report_traffic
  tloc,               \* per node agent: traffic_data still to be appended, user -> bytes
  collected,          \* per user: the bytes the agents have read from the engines with reset = true
  consumed,           \* bytes the engines have counted so far
  node_resp           \* the responses of the node endpoints: (endpoint, node_id, secret, http, ...)

dbVars == <<users, orders, coin_transactions, user_packages>>
trafficVars == <<stream, delivered, pending, acked, wpc, wloc, applied, times, delivery_count>>
subVars == <<nodes, node_updates, cache, now, fpc, floc, fetches, tasks, access_logs>>
linkVars == <<subscriptions, token_seq, lpc, lloc, links>>
gateVars == <<rejected, rate_limit, let_through>>
nodeVars == <<node_rev, agent, node_resp>>
hbVars == <<published, nodes_active, hpc, hloc, heartbeats, rpc, rloc, reads>>
hbProcVars == <<hpc, hloc, heartbeats>>
readerVars == <<rpc, rloc, reads>>
pkgVars == <<packages, package_updates>>
syncVars == <<active_users, users_lock, spc, sloc, complete, observed, syncs, user_reads>>
reportVars == <<xray, tpc, tloc, collected, consumed>>
moreVars == <<hbVars, pkgVars, syncVars, reportVars>>
extVars == <<subscriptions, token_seq, lpc, lloc, links, rejected, rate_limit, let_through,
             node_rev, agent, node_resp, moreVars>>
vars == <<users, orders, coin_transactions, user_packages, order_seq,
          rowlock, tx, pc, loc, ops, reported,
          stream, delivered, pending, acked, wpc, wloc, applied, times, delivery_count,
          nodes, node_updates, cache, now, fpc, floc, fetches, tasks, access_logs,
          subscriptions, token_seq, lpc, lloc, links, rejected, rate_limit, let_through,
          node_rev, agent, node_resp,
          published,
          packages,
          active_users,
          xray,
          nodes_active,
          hpc,
          hloc,
          heartbeats,
          rpc,
          rloc,
          reads,
          package_updates,
          users_lock,
          spc,
          sloc,
          complete,
          observed,
          syncs,
          user_reads,
          tpc,
          tloc,
          collected,
          consumed>>

(* ------------------------------ helpers ------------------------------- *)
NoTx == [user |-> NoUser, set_balance |-> FALSE, coin_balance |-> 0,
         set_quota |-> FALSE, traffic_quota |-> 0,
         orders |-> <<>>, coin_transactions |-> <<>>, user_packages |-> <<>>]

NoLoc == [op |-> "none", user_id |-> NoUser, package_id |-> 0, amount |-> 0,
          coin_balance |-> 0, traffic_quota |-> 0, traffic_used |-> 0,
          order_id |-> 0, rebate |-> "none"]

\* response bodies: the Clash YAML generated for a list of nodes, the
\* empty-config sentinel "proxies: []\nproxy-groups: []\nrules: []\n", and
\* the JSON body of an ApiError
ClashConfig(online) == [kind |-> "clash", proxies |-> online]
EmptyConfig == [kind |-> "empty", proxies |-> <<>>]
ErrorBody == [kind |-> "error", proxies |-> <<>>]

\* a key subscription:{token} that does not exist
\* (stored_at, read_at and updates_seen record when the key was set, when the
\* request that set it read the user row, and the node updates served by then)
NoEntry == [present |-> FALSE, body |-> EmptyConfig, expires_at |-> 0,
            stored_at |-> 0, read_at |-> 0, updates_seen |-> 0]

\* the local variables of get_subscription_config_handler; "unread" marks a
\* local the handler has not assigned yet
NoFetch == [n |-> 0, token |-> NoToken, user_id |-> NoUser, cached |-> "unread",
            user_status |-> "unread", has_traffic |-> "unread",
            user_package |-> "unread", online |-> <<>>, read_at |-> 0,
            db_error |-> FALSE, cache_error |-> FALSE,
            http |-> 0, body |-> ErrorBody, log |-> "none"]

\* /api/subscription/link request tasks and their local variables
Linkers == {1, 2}
NoLink == [user_id |-> NoUser, existing |-> NoToken, token |-> NoToken, http |-> 0]

\* no admin request was answered by the authorization check yet
NoRejected == [credential |-> "none", http |-> 0]

\* the key rate_limit:user:{id} does not exist
NoCounter == [count |-> 0, expires_at |-> 0]

\* no request of the user was answered yet: requests counts the requests,
\* limited those answered 429, count those let through since `since`
NoWindow == [since |-> 0, count |-> 0, requests |-> 0, limited |-> 0]

\* the key nodes:active is not set
NoNodeList == [present |-> FALSE, list |-> <<>>, expires_at |-> 0]

\* heartbeat requests in flight at once, and a request that has not started:
\* node_status is node.status as the handler read it, changed says whether
\* its UPDATE replaced a different stored status, invalidated whether it
\* sent DEL nodes:active
Heartbeaters == {1, 2}
NoHeartbeat == [node_id |-> 0, status |-> "none", node_status |-> "none", http |-> 0,
                changed |-> FALSE, invalidated |-> FALSE]

\* sync_active_users outside its loop over users_response.users: todo are the
\* users of the response not looked at yet, over those of them with
\* traffic_used >= traffic_quota
NoSync == [todo |-> {}, over |-> {}]

\* no reader of active_users has returned yet
NoObservation == [node |-> 0, users |-> {}]

\* an empty traffic_data
NoTraffic == [u \in Users |-> 0]

\* nodes.secret: the secret of node n is n
NoNode == 0
NodeSecret(n) == n
Secrets == {1, 2}

\* an agent that was not started; fetched is the revision held in
\* current_config and applied the revision written for Xray, -1 for none
NoAgent == [started |-> FALSE, subscribed |-> FALSE, inbox |-> 0,
            fetched |-> -1, applied |-> -1, polls |-> 0, sync_http |-> 0]

\* no node endpoint has answered yet
NoNodeResponse == [endpoint |-> "none", node_id |-> NoNode, secret |-> 0, http |-> 0,
                   node |-> NoNode, users |-> {}, rev |-> -1, db_error |-> FALSE]

NoBatch == [message_ids |-> <<>>, aggregated |-> <<>>, todo |-> {}, acknowledged |-> 0,
            updated |-> {}, errors |-> {}]

RECURSIVE SumAmounts(_, _)
\* SUM(amount) over the coin_transactions rows of user u
SumAmounts(rows, u) ==
  IF rows = <<>> THEN 0
  ELSE (IF Head(rows).user_id = u THEN Head(rows).amount ELSE 0)
       + SumAmounts(Tail(rows), u)

\* SELECT COUNT(*) FROM orders WHERE user_id = u AND status = 'completed'
CompletedOrders(u) ==
  Cardinality({i \in DOMAIN orders :
                 orders[i].user_id = u /\ orders[i].status = "completed"})

\* COMMIT: the transaction's writes become the committed rows
UsersAfter(t) ==
  IF t.user = NoUser THEN users
  ELSE [users EXCEPT
          ![t.user].coin_balance = IF t.set_balance THEN t.coin_balance ELSE @,
          ![t.user].traffic_quota = IF t.set_quota THEN t.traffic_quota ELSE @]

ApplyTx(t) ==
  /\ users' = UsersAfter(t)
  /\ orders' = orders \o t.orders
  /\ coin_transactions' = coin_transactions \o t.coin_transactions
  /\ user_packages' = user_packages \o t.user_packages

ReleaseLocks(p) == [u \in Users |-> IF rowlock[u] = p THEN NoProc ELSE rowlock[u]]

Commit(p) ==
  /\ ApplyTx(tx[p])
  /\ rowlock' = ReleaseLocks(p)
  /\ tx' = [tx EXCEPT ![p] = NoTx]

\* a plausible slip: the writes of an abandoned transaction are kept
RollbackKeepsWrites(p) ==
  /\ ApplyTx(tx[p])
  /\ rowlock' = ReleaseLocks(p)
  /\ tx' = [tx EXCEPT ![p] = NoTx]

\* the Transaction is dropped on an early return: ROLLBACK
Rollback(p) ==
  /\ UNCHANGED dbVars
  /\ rowlock' = ReleaseLocks(p)
  /\ tx' = [tx EXCEPT ![p] = NoTx]

Goto(p, label) == pc' = [pc EXCEPT ![p] = label]

\* a new request is served by the first idle request task
AcceptWithin(p, max) ==
  /\ pc[p] = "idle"
  /\ \A q \in Procs : q < p => pc[q] # "idle"
  /\ ops < max
  /\ ops' = ops + 1

Accept(p) == AcceptWithin(p, MaxOps)

\* (purchase_amount as f64 * rebate_percentage) as i64
RebateAmount(price) == (price * RebatePercent) \div 100

\* a plausible slip: an insufficient balance is never detected
InsufficientBalanceNever(balance, amount) == FALSE

\* if user.coin_balance < package.price / if user.coin_balance < amount
InsufficientBalance(balance, amount) == balance < amount

\* a plausible slip: the quota is overwritten instead of increased
NewTrafficQuotaOverwrites(traffic_quota, traffic_amount) == traffic_amount

\* new_traffic_quota = user.traffic_quota + package.traffic_amount
NewTrafficQuota(traffic_quota, traffic_amount) == traffic_quota + traffic_amount

\* a plausible slip: the first-purchase test is left out
IsFirstPurchaseAlways(count) == TRUE

\* the rebate goes on unless previous_purchases.0 > 0
IsFirstPurchase(count) == ~(count > 0)

(* ------------------------------- Init --------------------------------- *)
\* no request is being served, the stream and the cache are empty, every node is online
InitRest ==
  /\ rowlock = [u \in Users |-> NoProc]
  /\ tx = [p \in Procs |-> NoTx]
  /\ pc = [p \in Procs |-> "idle"]
  /\ loc = [p \in Procs |-> NoLoc]
  /\ ops = 0
  /\ reported = [u \in Users |-> 0]
  /\ stream = <<>>
  /\ delivered = 0
  /\ pending = {}
  /\ acked = {}
  /\ wpc = [w \in Workers |-> "read"]
  /\ wloc = [w \in Workers |-> NoBatch]
  /\ applied = [u \in Users |-> 0]
  /\ times = [i \in 1..MaxStream |-> 0]
  /\ delivery_count = [i \in 1..MaxStream |-> 0]
  /\ node_updates = 0
  /\ cache = [t \in Tokens |-> NoEntry]
  /\ now = 0
  /\ fpc = [f \in Fetchers |-> "f_idle"]
  /\ floc = [f \in Fetchers |-> NoFetch]
  /\ fetches = 0
  /\ tasks = {}
  /\ access_logs = {}
  /\ lpc = [l \in Linkers |-> "l_idle"]
  /\ lloc = [l \in Linkers |-> NoLink]
  /\ links = {}
  /\ rejected = NoRejected
  /\ rate_limit = [u \in Users |-> NoCounter]
  /\ let_through = [u \in Users |-> NoWindow]
  /\ node_rev = [n \in NodeIds |-> 0]
  /\ agent = [n \in NodeIds |-> NoAgent]
  /\ node_resp = NoNodeResponse
  /\ published = <<>>
  /\ packages = PackageTable
  /\ active_users = [n \in NodeIds |-> {}]
  /\ xray = [n \in NodeIds |-> [u \in Users |-> 0]]
  /\ nodes_active = NoNodeList
  /\ hpc = [h \in Heartbeaters |-> "h_idle"]
  /\ hloc = [h \in Heartbeaters |-> NoHeartbeat]
  /\ heartbeats = 0
  /\ rpc = "r_idle"
  /\ rloc = <<>>
  /\ reads = 0
  /\ package_updates = 0
  /\ users_lock = [n \in NodeIds |-> FALSE]
  /\ spc = [n \in NodeIds |-> "s_idle"]
  /\ sloc = [n \in NodeIds |-> NoSync]
  /\ complete = [n \in NodeIds |-> {}]
  /\ observed = NoObservation
  /\ syncs = 0
  /\ user_reads = 0
  /\ tpc = [n \in NodeIds |-> "t_idle"]
  /\ tloc = [n \in NodeIds |-> NoTraffic]
  /\ collected = [u \in Users |-> 0]
  /\ consumed = 0

Init ==
  /\ users = [u \in Users |->
                [coin_balance |-> InitBalance, traffic_quota |-> 0,
                 traffic_used |-> 0, status |-> "active",
                 referred_by |-> ReferredBy(u)]]
  /\ orders = <<>>
  /\ coin_transactions = <<>>
  /\ user_packages = <<>>
  /\ order_seq = 0
  /\ subscriptions = [u \in Users |-> NoToken]
  /\ token_seq = 0
  /\ nodes = [n \in NodeIds |-> "online"]
  /\ InitRest

\* users whose balance pays for package 1 once and not twice
InitLowBalance ==
  /\ users = [u \in Users |->
                [coin_balance |-> LowBalance, traffic_quota |-> 0,
                 traffic_used |-> 0, status |-> "active",
                 referred_by |-> ReferredBy(u)]]
  /\ orders = <<>>
  /\ coin_transactions = <<>>
  /\ user_packages = <<>>
  /\ order_seq = 0
  /\ subscriptions = [u \in Users |-> NoToken]
  /\ token_seq = 0
  /\ nodes = [n \in NodeIds |-> "online"]
  /\ InitRest

\* the state of a user who bought package 1 before the behaviour starts:
\* user 1 holds its quota and one active user_packages row; user 2 bought nothing
SubscriptionRows ==
  /\ users = [u \in Users |->
                [coin_balance |-> InitBalance,
                 traffic_quota |-> IF u = 1 THEN PackageTable[1].traffic_amount ELSE 0,
                 traffic_used |-> 0, status |-> "active",
                 referred_by |-> ReferredBy(u)]]
  /\ orders = <<[id |-> 1, user_id |-> 1, package_id |-> 1,
                 amount |-> PackageTable[1].price, status |-> "completed"]>>
  /\ coin_transactions = <<[user_id |-> 1, amount |-> -PackageTable[1].price,
                            type |-> "purchase", referee |-> NoUser]>>
  /\ user_packages = <<[user_id |-> 1, package_id |-> 1, order_id |-> 1,
                        traffic_quota |-> PackageTable[1].traffic_amount,
                        traffic_used |-> 0, status |-> "active",
                        expires_at |-> PackageExpiresAt]>>
  /\ order_seq = 1
  /\ subscriptions = [u \in Users |-> IF u = 1 THEN 1 ELSE NoToken]
  /\ token_seq = 1

\* both nodes exist and are online
InitSubscription ==
  /\ SubscriptionRows
  /\ nodes = [n \in NodeIds |-> "online"]
  /\ InitRest

\* node 1 exists and is online, the id 2 was not handed out yet
InitNodes ==
  /\ SubscriptionRows
  /\ nodes = [n \in NodeIds |-> IF n = 1 THEN "online" ELSE "absent"]
  /\ InitRest

\* the purchases of user 1 before an entitlement behaviour starts, in their
\* order: package 1, then package 4, which adds no traffic and runs longer
EntitlementRows ==
  << [user_id |-> 1, package_id |-> 1, order_id |-> 1,
      traffic_quota |-> PackageTable[1].traffic_amount,
      traffic_used |-> 0, status |-> "active", expires_at |-> PackageExpiresAt],
     [user_id |-> 1, package_id |-> 4, order_id |-> 2,
      traffic_quota |-> PackageTable[4].traffic_amount,
      traffic_used |-> 0, status |-> "active",
      expires_at |-> PackageExpiresAt + TickSeconds] >>

\* user 1 has made the first k of these purchases
InitEntitlements ==
  \E k \in 0..Len(EntitlementRows) :
    /\ users = [u \in Users |->
                  [coin_balance |-> InitBalance,
                   traffic_quota |-> IF u = 1 /\ k >= 1
                                     THEN PackageTable[1].traffic_amount ELSE 0,
                   traffic_used |-> 0, status |-> "active",
                   referred_by |-> ReferredBy(u)]]
    /\ user_packages = SubSeq(EntitlementRows, 1, k)
    /\ orders = [i \in 1..k |->
                   [id |-> i, user_id |-> 1, package_id |-> EntitlementRows[i].package_id,
                    amount |-> PackageTable[EntitlementRows[i].package_id].price,
                    status |-> "completed"]]
    /\ coin_transactions =
         [i \in 1..k |->
            [user_id |-> 1, amount |-> -PackageTable[EntitlementRows[i].package_id].price,
             type |-> "purchase", referee |-> NoUser]]
    /\ order_seq = k
    /\ subscriptions = [u \in Users |-> IF u = 1 THEN 1 ELSE NoToken]
    /\ token_seq = 1
    /\ nodes = [n \in NodeIds |-> "online"]
    /\ InitRest

\* balance delta an operation with the local variables l asks for
Delta(l) ==
  CASE l.op = "purchase" -> -l.amount
    [] l.op = "deduct_coins" -> -l.amount
    [] l.op = "add_coins" -> l.amount
    [] l.op = "admin_balance" -> l.amount
    [] OTHER -> 0

(* ------------------ db::update_package, db::delete_package ------------- *)
\* the Option<i64> price and Option<bool> is_active a caller passes, <<>> for None
PackagePrices == {<<>>, <<20>>}
PackageFlags == {<<>>, <<TRUE>>, <<FALSE>>}

\* UPDATE packages SET updated_at = NOW() [, price = $n] [, is_active = $n]
\* WHERE id = $n: one statement in its own transaction
update_package(k, price, is_active) ==
  /\ package_updates < MaxPackageUpdates
  /\ package_updates' = package_updates + 1
  /\ packages' = [packages EXCEPT
                    ![k] = [@ EXCEPT
                              !.price = IF price = <<>> THEN @ ELSE price[1],
                              !.is_active = IF is_active = <<>> THEN @ ELSE is_active[1]]]
  /\ UNCHANGED <<dbVars, order_seq, rowlock, tx, pc, loc, ops, reported>>
  /\ UNCHANGED <<trafficVars, subVars, linkVars, gateVars, nodeVars>>
  /\ UNCHANGED <<hbVars, syncVars, reportVars>>

\* UPDATE packages SET is_active = false, updated_at = NOW() WHERE id = $1
delete_package(k) ==
  /\ package_updates < MaxPackageUpdates
  /\ package_updates' = package_updates + 1
  /\ packages' = [packages EXCEPT ![k].is_active = FALSE]
  /\ UNCHANGED <<dbVars, order_seq, rowlock, tx, pc, loc, ops, reported>>
  /\ UNCHANGED <<trafficVars, subVars, linkVars, gateVars, nodeVars>>
  /\ UNCHANGED <<hbVars, syncVars, reportVars>>

(* ----------------------- purchase_package_handler ---------------------- *)
\* get_package_by_id and the is_active test
PurchaseLoadPackage(p, u, k) ==
  /\ Accept(p)
  /\ loc' = [loc EXCEPT ![p] = [NoLoc EXCEPT !.op = "purchase", !.user_id = u,
                                  !.package_id = k, !.amount = packages[k].price]]
  /\ Goto(p, IF packages[k].is_active THEN "p_lock" ELSE "failed")
  /\ UNCHANGED <<dbVars, order_seq, rowlock, tx, reported>>
  /\ UNCHANGED <<trafficVars, subVars, extVars>>

\* a plausible slip: the user is read with a plain SELECT, which waits for nobody
SelectWithoutLock(u) == TRUE

\* SELECT * FROM users WHERE id = $1 FOR UPDATE returns once no other
\* transaction holds the lock of the row
SelectForUpdate(u) == rowlock[u] = NoProc

\* BEGIN; SELECT * FROM users WHERE id = $1 FOR UPDATE; status and balance tests
PurchaseLockUser(p) ==
  /\ pc[p] = "p_lock"
  /\ SelectForUpdate(loc[p].user_id)
  /\ LET u == loc[p].user_id
         user == users[u]
     IN  IF user.status = "disabled" \/ InsufficientBalance(user.coin_balance, loc[p].amount)
         THEN /\ Goto(p, "failed")
              /\ UNCHANGED <<rowlock, tx, loc>>
         ELSE /\ rowlock' = [rowlock EXCEPT ![u] = p]
              /\ tx' = [tx EXCEPT ![p] = [NoTx EXCEPT !.user = u]]
              /\ loc' = [loc EXCEPT ![p].coin_balance = user.coin_balance,
                                    ![p].traffic_quota = user.traffic_quota]
              /\ Goto(p, "p_order")
  /\ UNCHANGED <<dbVars, order_seq, ops, reported>>
  /\ UNCHANGED <<trafficVars, subVars, extVars>>

\* INSERT INTO orders (..., amount, status) VALUES (..., package.price, 'pending') RETURNING *
PurchaseInsertOrder(p) ==
  /\ pc[p] = "p_order"
  /\ order_seq' = order_seq + 1
  /\ loc' = [loc EXCEPT ![p].order_id = order_seq + 1]
  /\ tx' = [tx EXCEPT ![p].orders =
              <<[id |-> order_seq + 1, user_id |-> loc[p].user_id,
                 package_id |-> loc[p].package_id, amount |-> loc[p].amount,
                 status |-> "pending"]>>]
  /\ Goto(p, "p_debit")
  /\ UNCHANGED <<dbVars, rowlock, ops, reported>>
  /\ UNCHANGED <<trafficVars, subVars, extVars>>

\* new_balance = user.coin_balance - package.price; UPDATE users SET coin_balance = $2
PurchaseDeductBalance(p) ==
  /\ pc[p] = "p_debit"
  /\ tx' = [tx EXCEPT ![p].set_balance = TRUE,
                      ![p].coin_balance = loc[p].coin_balance - loc[p].amount]
  /\ Goto(p, "p_cointx")
  /\ UNCHANGED <<dbVars, order_seq, rowlock, loc, ops, reported>>
  /\ UNCHANGED <<trafficVars, subVars, extVars>>

\* INSERT INTO coin_transactions ... VALUES ($1, -package.price, 'purchase', ...)
PurchaseInsertCoinTransaction(p) ==
  /\ pc[p] = "p_cointx"
  /\ tx' = [tx EXCEPT ![p].coin_transactions =
              <<[user_id |-> loc[p].user_id, amount |-> -loc[p].amount,
                 type |-> "purchase", referee |-> NoUser]>>]
  /\ Goto(p, "p_quota")
  /\ UNCHANGED <<dbVars, order_seq, rowlock, loc, ops, reported>>
  /\ UNCHANGED <<trafficVars, subVars, extVars>>

\* new_traffic_quota = user.traffic_quota + package.traffic_amount; UPDATE users SET traffic_quota = $2
PurchaseAddQuota(p) ==
  /\ pc[p] = "p_quota"
  /\ tx' = [tx EXCEPT ![p].set_quota = TRUE,
                      ![p].traffic_quota =
                         NewTrafficQuota(loc[p].traffic_quota,
                                         PackageTable[loc[p].package_id].traffic_amount)]
  /\ Goto(p, "p_userpkg")
  /\ UNCHANGED <<dbVars, order_seq, rowlock, loc, ops, reported>>
  /\ UNCHANGED <<trafficVars, subVars, extVars>>

\* INSERT INTO user_packages (user_id, package_id, order_id, traffic_quota, expires_at)
PurchaseInsertUserPackage(p) ==
  /\ pc[p] = "p_userpkg"
  /\ tx' = [tx EXCEPT ![p].user_packages =
              <<[user_id |-> loc[p].user_id, package_id |-> loc[p].package_id,
                 order_id |-> loc[p].order_id,
                 traffic_quota |-> PackageTable[loc[p].package_id].traffic_amount,
                 traffic_used |-> 0, status |-> "active",
                 expires_at |-> now + PackageTable[loc[p].package_id].duration_days
                                        * (24 * 60 * 60)]>>]
  /\ Goto(p, "p_complete")
  /\ UNCHANGED <<dbVars, order_seq, rowlock, loc, ops, reported>>
  /\ UNCHANGED <<trafficVars, subVars, extVars>>

\* a plausible slip: the order is left pending
PurchaseCompleteOrderSkipped(p) ==
  /\ pc[p] = "p_complete"
  /\ Goto(p, "p_commit")
  /\ UNCHANGED <<dbVars, order_seq, rowlock, tx, loc, ops, reported>>
  /\ UNCHANGED <<trafficVars, subVars, extVars>>

\* UPDATE orders SET status = 'completed', completed_at = NOW() WHERE id = $1
PurchaseCompleteOrder(p) ==
  /\ pc[p] = "p_complete"
  /\ tx' = [tx EXCEPT ![p].orders =
              [i \in DOMAIN @ |-> IF @[i].id = loc[p].order_id
                                  THEN [@[i] EXCEPT !.status = "completed"]
                                  ELSE @[i]]]
  /\ Goto(p, "p_commit")
  /\ UNCHANGED <<dbVars, order_seq, rowlock, loc, ops, reported>>
  /\ UNCHANGED <<trafficVars, subVars, extVars>>

\* tx.commit()
PurchaseCommit(p) ==
  /\ pc[p] = "p_commit"
  /\ Commit(p)
  /\ Goto(p, "p_rebate")
  /\ UNCHANGED <<order_seq, loc, ops, reported>>
  /\ UNCHANGED <<trafficVars, subVars, extVars>>

(* ----------------------- process_referral_rebate ----------------------- *)
\* The whole function, called after the purchase has committed.  Its reads
\* are committed rows; the credit waits for the referrer's row lock.  Any
\* error (second disjunct) is dropped by the caller's `if let Ok(Some(..))`.
\* a plausible slip: the result of the rebate is passed on with `?`
AfterRebatePropagates(result) == IF result = "error" THEN "failed" ELSE "done"

\* `if let Ok(Some(referrer)) = db::process_referral_rebate(..).await { info!(..) }`,
\* then Ok(Json(..)): whatever the rebate returned, the purchase answers 200
AfterRebate(result) == "done"

ProcessReferralRebate(p) ==
  /\ pc[p] = "p_rebate"
  /\ LET u == loc[p].user_id
         referrer_id == users[u].referred_by
         rebate_amount == RebateAmount(loc[p].amount)
         credit == /\ referrer_id # NoUser
                   /\ referrer_id # u
                   /\ IsFirstPurchase(CompletedOrders(u))
                   /\ rebate_amount > 0
     IN  \/ /\ IF credit
               THEN /\ rowlock[referrer_id] = NoProc
                    /\ users' = [users EXCEPT
                                   ![referrer_id].coin_balance = @ + rebate_amount]
                    /\ coin_transactions' =
                         Append(coin_transactions,
                                [user_id |-> referrer_id, amount |-> rebate_amount,
                                 type |-> "referral", referee |-> u])
                    /\ reported' = [reported EXCEPT ![referrer_id] = @ + rebate_amount]
                    /\ UNCHANGED <<orders, user_packages>>
               ELSE UNCHANGED <<dbVars, reported>>
            /\ loc' = [loc EXCEPT ![p].rebate = "ok"]
            /\ Goto(p, AfterRebate("ok"))
         \/ /\ UNCHANGED <<dbVars, reported>>
            /\ loc' = [loc EXCEPT ![p].rebate = "error"]
            /\ Goto(p, AfterRebate("error"))
  /\ UNCHANGED <<order_seq, rowlock, tx, ops>>
  /\ UNCHANGED <<trafficVars, subVars, extVars>>

(* ------------------- admin_update_user_balance_handler ----------------- *)
\* get_user_by_id (a plain SELECT on the pool), new_balance = user.coin_balance + amount,
\* and the new_balance < 0 test
AdminBalanceRead(p, u, amount) ==
  /\ Accept(p)
  /\ loc' = [loc EXCEPT ![p] = [NoLoc EXCEPT !.op = "admin_balance", !.user_id = u,
                                  !.amount = amount,
                                  !.coin_balance = users[u].coin_balance]]
  /\ Goto(p, IF users[u].coin_balance + amount < 0 THEN "failed" ELSE "a_update")
  /\ UNCHANGED <<dbVars, order_seq, rowlock, tx, reported>>
  /\ UNCHANGED <<trafficVars, subVars, extVars>>

\* db::update_user_coin_balance(pool, user_id, new_balance): one UPDATE on the
\* pool, outside any transaction; it waits for the row lock.  On an error the
\* handler returns it.
AdminBalanceUpdate(p) ==
  /\ pc[p] = "a_update"
  /\ rowlock[loc[p].user_id] = NoProc
  /\ \/ /\ users' = [users EXCEPT ![loc[p].user_id].coin_balance =
                                     loc[p].coin_balance + loc[p].amount]
        /\ Goto(p, "a_record")
     \/ /\ UNCHANGED users
        /\ Goto(p, "failed")
  /\ UNCHANGED <<orders, coin_transactions, user_packages, order_seq, rowlock, tx,
                 loc, ops, reported>>
  /\ UNCHANGED <<trafficVars, subVars, extVars>>

\* let _ = db::create_coin_transaction(...): one INSERT on the pool whose
\* error is discarded
AdminBalanceRecord(p) ==
  /\ pc[p] = "a_record"
  /\ \/ coin_transactions' =
          Append(coin_transactions,
                 [user_id |-> loc[p].user_id, amount |-> loc[p].amount,
                  type |-> IF loc[p].amount >= 0 THEN "recharge" ELSE "purchase",
                  referee |-> NoUser])
     \/ UNCHANGED coin_transactions
  /\ Goto(p, "done")
  /\ UNCHANGED <<users, orders, user_packages, order_seq, rowlock, tx, loc, ops, reported>>
  /\ UNCHANGED <<trafficVars, subVars, extVars>>

AdminBalance(p) ==
  \/ \E u \in Users, a \in AdminAmounts : AdminBalanceRead(p, u, a)
  \/ AdminBalanceUpdate(p)
  \/ AdminBalanceRecord(p)

(* -------------------- admin_update_user_status_handler ----------------- *)
\* get_user_by_id, then db::update_user_status: one UPDATE on the pool
AdminUpdateUserStatus(p, u, status) ==
  /\ Accept(p)
  /\ rowlock[u] = NoProc
  /\ users' = [users EXCEPT ![u].status = status]
  /\ UNCHANGED <<orders, coin_transactions, user_packages, order_seq, rowlock, tx,
                 pc, loc, reported>>
  /\ UNCHANGED <<trafficVars, subVars, extVars>>

(* ------------------------ add_coins, deduct_coins ---------------------- *)
\* if amount <= 0 { return Err(BadRequest) }
CoinsBegin(p, op, u, amount) ==
  /\ Accept(p)
  /\ loc' = [loc EXCEPT ![p] = [NoLoc EXCEPT !.op = op, !.user_id = u, !.amount = amount]]
  /\ Goto(p, IF amount <= 0 THEN "failed" ELSE "c_lock")
  /\ UNCHANGED <<dbVars, order_seq, rowlock, tx, reported>>
  /\ UNCHANGED <<trafficVars, subVars, extVars>>

\* pool.begin(); SELECT * FROM users WHERE id = $1 FOR UPDATE;
\* deduct_coins: if user.coin_balance < amount { return Err(BadRequest) }
CoinsLockUser(p) ==
  /\ pc[p] = "c_lock"
  /\ rowlock[loc[p].user_id] = NoProc
  /\ LET u == loc[p].user_id
     IN  IF loc[p].op = "deduct_coins"
            /\ InsufficientBalance(users[u].coin_balance, loc[p].amount)
         THEN /\ Goto(p, "failed")
              /\ UNCHANGED <<rowlock, tx, loc>>
         ELSE /\ rowlock' = [rowlock EXCEPT ![u] = p]
              /\ tx' = [tx EXCEPT ![p] = [NoTx EXCEPT !.user = u]]
              /\ loc' = [loc EXCEPT ![p].coin_balance = users[u].coin_balance]
              /\ Goto(p, "c_update")
  /\ UNCHANGED <<dbVars, order_seq, ops, reported>>
  /\ UNCHANGED <<trafficVars, subVars, extVars>>

\* new_balance = user.coin_balance + amount (add_coins), - amount (deduct_coins);
\* UPDATE users SET coin_balance = $2
CoinsUpdateBalance(p) ==
  /\ pc[p] = "c_update"
  /\ tx' = [tx EXCEPT ![p].set_balance = TRUE,
                      ![p].coin_balance = loc[p].coin_balance + Delta(loc[p])]
  /\ Goto(p, "c_insert")
  /\ UNCHANGED <<dbVars, order_seq, rowlock, loc, ops, reported>>
  /\ UNCHANGED <<trafficVars, subVars, extVars>>

\* INSERT INTO coin_transactions: (amount, 'recharge') in add_coins,
\* (-amount, 'purchase') in deduct_coins
CoinsInsertTransaction(p) ==
  /\ pc[p] = "c_insert"
  /\ tx' = [tx EXCEPT ![p].coin_transactions =
              <<[user_id |-> loc[p].user_id, amount |-> Delta(loc[p]),
                 type |-> IF loc[p].op = "add_coins" THEN "recharge" ELSE "purchase",
                 referee |-> NoUser]>>]
  /\ Goto(p, "c_commit")
  /\ UNCHANGED <<dbVars, order_seq, rowlock, loc, ops, reported>>
  /\ UNCHANGED <<trafficVars, subVars, extVars>>

\* tx.commit()
CoinsCommit(p) ==
  /\ pc[p] = "c_commit"
  /\ Commit(p)
  /\ Goto(p, "done")
  /\ UNCHANGED <<order_seq, loc, ops, reported>>
  /\ UNCHANGED <<trafficVars, subVars, extVars>>

Coins(p) ==
  \/ \E u \in Users, a \in CoinAmounts : CoinsBegin(p, "add_coins", u, a)
  \/ \E u \in Users, a \in CoinAmounts : CoinsBegin(p, "deduct_coins", u, a)
  \/ CoinsLockUser(p)
  \/ CoinsUpdateBalance(p)
  \/ CoinsInsertTransaction(p)
  \/ CoinsCommit(p)

(* ------------------- admin_update_user_traffic_handler ----------------- *)
\* payload.unwrap_or(current value)
UnwrapOr(option, default) == IF option = <<>> THEN default ELSE option[1]

\* get_user_by_id (a plain SELECT on the pool); new_quota and new_used default
\* to the values just read; if new_quota < 0 || new_used < 0 { BadRequest }
AdminTrafficRead(p, u, payload) ==
  /\ AcceptWithin(p, MaxTrafficOps)
  /\ LET new_quota == UnwrapOr(payload.traffic_quota, users[u].traffic_quota)
         new_used == UnwrapOr(payload.traffic_used, users[u].traffic_used)
     IN  /\ loc' = [loc EXCEPT ![p] = [NoLoc EXCEPT !.op = "admin_traffic", !.user_id = u,
                                         !.traffic_quota = new_quota,
                                         !.traffic_used = new_used]]
         /\ Goto(p, IF new_quota < 0 \/ new_used < 0 THEN "failed" ELSE "t_update")
  /\ UNCHANGED <<dbVars, order_seq, rowlock, tx, reported>>
  /\ UNCHANGED <<trafficVars, subVars, extVars>>

\* db::update_user_traffic: UPDATE users SET traffic_quota = $2, traffic_used = $3
\* on the pool, outside any transaction; on an error the handler returns it
AdminTrafficUpdate(p) ==
  /\ pc[p] = "t_update"
  /\ rowlock[loc[p].user_id] = NoProc
  /\ \/ /\ users' = [users EXCEPT ![loc[p].user_id].traffic_quota = loc[p].traffic_quota,
                                   ![loc[p].user_id].traffic_used = loc[p].traffic_used]
        /\ Goto(p, "done")
     \/ /\ UNCHANGED users
        /\ Goto(p, "failed")
  /\ UNCHANGED <<orders, coin_transactions, user_packages, order_seq, rowlock, tx,
                 loc, ops, reported>>
  /\ UNCHANGED <<trafficVars, subVars, extVars>>

AdminTraffic(p) ==
  \/ \E u \in Users, payload \in TrafficPayloads : AdminTrafficRead(p, u, payload)
  \/ AdminTrafficUpdate(p)

\* a statement of the open transaction (or its BEGIN or COMMIT) fails:
\* the handler returns the error and the transaction is rolled back
TxPcs == {"p_lock", "p_order", "p_debit", "p_cointx", "p_quota", "p_userpkg",
          "p_complete", "p_commit", "c_lock", "c_update", "c_insert", "c_commit"}

DbError(p) ==
  /\ pc[p] \in TxPcs
  /\ Rollback(p)
  /\ Goto(p, "failed")
  /\ UNCHANGED <<order_seq, loc, ops, reported>>
  /\ UNCHANGED <<trafficVars, subVars, extVars>>

\* the handler returns its response
Return(p) ==
  /\ pc[p] \in {"done", "failed"}
  /\ reported' = IF pc[p] = "done" /\ loc[p].user_id # NoUser
                 THEN [reported EXCEPT ![loc[p].user_id] = @ + Delta(loc[p])]
                 ELSE reported
  /\ loc' = [loc EXCEPT ![p] = NoLoc]
  /\ Goto(p, "idle")
  /\ UNCHANGED <<dbVars, order_seq, rowlock, tx, ops>>
  /\ UNCHANGED <<trafficVars, subVars, extVars>>

(* --------------------------- traffic pipeline ------------------------- *)
billingVars == <<orders, coin_transactions, user_packages, order_seq, rowlock, tx,
                 pc, loc, ops, reported>>

\* XADD traffic_stream * node_id .. user_id .. upload .. download .. timestamp ..
XAdd(entry) ==
  /\ Len(stream) < MaxStream
  /\ stream' = Append(stream, entry)
  /\ UNCHANGED <<users, billingVars, subVars, extVars, delivered, pending, acked, wpc, wloc,
                 applied, times, delivery_count>>

RECURSIVE AggregateFrom(_, _)
\* for report in reports { entry = aggregated.entry(user_id).or_insert((0, 0));
\*                         entry.0 += upload; entry.1 += download }
AggregateFrom(reports, aggregated) ==
  IF reports = <<>> THEN aggregated
  ELSE LET report == Head(reports)
           entry == IF report.user_id \in DOMAIN aggregated
                    THEN aggregated[report.user_id] ELSE <<0, 0>>
       IN  AggregateFrom(Tail(reports),
             [u \in DOMAIN aggregated \cup {report.user_id} |->
                IF u = report.user_id
                THEN <<entry[1] + report.upload, entry[2] + report.download>>
                ELSE aggregated[u]])

aggregate_traffic(reports) == AggregateFrom(reports, <<>>)

Min(a, b) == IF a < b THEN a ELSE b

\* XREADGROUP GROUP traffic_processor <consumer> COUNT batch_size STREAMS traffic_stream >
\* then the parse loop (the first tuple that fails to parse ends process_batch
\* with an error, nothing is acknowledged) and aggregate_traffic
WorkerRead(w) ==
  /\ wpc[w] = "read"
  /\ delivered < Len(stream)
  /\ LET last == Min(Len(stream), delivered + batch_size)
         ids == [i \in 1..(last - delivered) |-> delivered + i]
         reports == [i \in DOMAIN ids |-> stream[ids[i]]]
     IN  /\ delivered' = last
         /\ pending' = pending \cup {ids[i] : i \in DOMAIN ids}
         /\ delivery_count' = [i \in DOMAIN delivery_count |->
                                 IF delivered < i /\ i <= last
                                 THEN delivery_count[i] + 1 ELSE delivery_count[i]]
         /\ IF \E i \in DOMAIN reports : ~reports[i].parses
            THEN UNCHANGED <<wpc, wloc>>
            ELSE /\ wloc' = [wloc EXCEPT ![w] =
                               [message_ids |-> ids,
                                aggregated |-> aggregate_traffic(reports),
                                todo |-> DOMAIN aggregate_traffic(reports),
                                acknowledged |-> 0,
                                updated |-> {}, errors |-> {}]]
                 /\ wpc' = [wpc EXCEPT ![w] = "update"]
  /\ UNCHANGED <<users, billingVars, subVars, extVars, stream, acked, applied, times>>

\* a plausible slip: the sum is stored instead of added
TrafficUsedAfterOverwrites(traffic_used, upload, download) == upload + download

\* SET traffic_used = traffic_used + $2, with $2 = upload + download
TrafficUsedAfter(traffic_used, upload, download) == traffic_used + (upload + download)

\* one turn of the loop of update_user_traffic_batch, in the HashMap's order:
\* the UPDATE of one user, which waits for the row lock; its error is logged
\* and the loop goes on
WorkerUpdateUser(w, u) ==
  /\ wpc[w] = "update"
  /\ u \in wloc[w].todo
  /\ rowlock[u] = NoProc
  /\ LET upload == wloc[w].aggregated[u][1]
         download == wloc[w].aggregated[u][2]
         ids == {wloc[w].message_ids[n] : n \in DOMAIN wloc[w].message_ids}
     IN  \/ /\ users' = [users EXCEPT ![u].traffic_used =
                                        TrafficUsedAfter(@, upload, download)]
            /\ applied' = [applied EXCEPT ![u] = @ + (upload + download)]
            /\ times' = [i \in DOMAIN times |->
                           IF i \in ids /\ stream[i].user_id = u
                           THEN times[i] + 1 ELSE times[i]]
            /\ wloc' = [wloc EXCEPT ![w].todo = @ \ {u}, ![w].updated = @ \cup {u}]
         \/ /\ UNCHANGED <<users, applied, times>>
            /\ wloc' = [wloc EXCEPT ![w].todo = @ \ {u}, ![w].errors = @ \cup {u}]
  /\ wpc' = [wpc EXCEPT ![w] = IF wloc[w].todo = {u} THEN "ack" ELSE "update"]
  /\ UNCHANGED <<billingVars, subVars, extVars, stream, delivered, pending, acked,
                 delivery_count>>

\* one turn of the loop of acknowledge_messages: XACK of the next message id,
\* whose result is discarded
WorkerAck(w) ==
  /\ wpc[w] = "ack"
  /\ LET n == wloc[w].acknowledged + 1
         id == wloc[w].message_ids[n]
     IN  /\ \/ /\ acked' = acked \cup {id}
               /\ pending' = pending \ {id}
            \/ UNCHANGED <<acked, pending>>
         /\ IF n = Len(wloc[w].message_ids)
            THEN /\ wloc' = [wloc EXCEPT ![w] = NoBatch]
                 /\ wpc' = [wpc EXCEPT ![w] = "read"]
            ELSE /\ wloc' = [wloc EXCEPT ![w].acknowledged = n]
                 /\ UNCHANGED wpc
  /\ UNCHANGED <<users, billingVars, subVars, extVars, stream, delivered, applied, times,
                 delivery_count>>

Worker(w) ==
  \/ WorkerRead(w)
  \/ \E u \in Users : WorkerUpdateUser(w, u)
  \/ WorkerAck(w)

(* -------------------- get_subscription_config_handler ------------------ *)
\* db::get_subscription_by_token: the user_id of the row, NoUser without a row
SubscriptionByToken(token) ==
  IF token # NoToken /\ \E u \in Users : subscriptions[u] = token
  THEN CHOOSE u \in Users : subscriptions[u] = token
  ELSE NoUser

\* a plausible slip: the TTL is given in minutes
ExpiresAtInMinutes(t) == t + SubscriptionTtl * 60

\* SET subscription:{token} <config> EX 300
ExpiresAt(t) == t + SubscriptionTtl

\* a plausible slip: the quota counts as exceeded only above it
CheckTrafficQuotaAbove(user) == user.traffic_used <= user.traffic_quota

\* check_traffic_quota: Ok(u.traffic_used < u.traffic_quota)
CheckTrafficQuota(user) == user.traffic_used < user.traffic_quota

\* a plausible slip: disabled is tested with the wrong literal
IsDisabledNever(user) == user.status = "banned"

\* if user.status == "disabled"
IsDisabled(user) == user.status = "disabled"

\* a plausible slip: the access log is written before the response is built
\* and its error is returned
RespondAwaitingLog(f, l, http, body, log) ==
  /\ fpc' = [fpc EXCEPT ![f] = "f_respond"]
  /\ IF log = "none"
     THEN /\ floc' = [floc EXCEPT ![f] = [l EXCEPT !.http = http, !.body = body, !.log = log]]
          /\ UNCHANGED tasks
     ELSE \/ /\ floc' = [floc EXCEPT ![f] =
                           [l EXCEPT !.http = http, !.body = body, !.log = log]]
             /\ tasks' = tasks \cup {[n |-> l.n, user_id |-> l.user_id, status |-> log]}
          \/ /\ floc' = [floc EXCEPT ![f] =
                           [l EXCEPT !.http = 500, !.body = ErrorBody, !.log = log]]
             /\ UNCHANGED tasks

\* log_access_async(.., status) followed by the return of the response:
\* tokio::spawn detaches the task that writes the access log, whatever the
\* number of tasks in flight; the handler does not wait for it
Respond(f, l, http, body, log) ==
  /\ fpc' = [fpc EXCEPT ![f] = "f_respond"]
  /\ floc' = [floc EXCEPT ![f] = [l EXCEPT !.http = http, !.body = body, !.log = log]]
  /\ IF log = "none"
     THEN UNCHANGED tasks
     ELSE tasks' = tasks \cup {[n |-> l.n, user_id |-> l.user_id, status |-> log]}

\* the handler goes on to its next statement
Proceed(f, l, label) ==
  /\ fpc' = [fpc EXCEPT ![f] = label]
  /\ floc' = [floc EXCEPT ![f] = l]
  /\ UNCHANGED tasks

\* redis_cache.get_subscription_config: Ok(Some(..)) is a hit, which is
\* answered with the cached body (logged as success when the token has a
\* row); Ok(None) and Err(..) both go on to the database.  Then
\* get_subscription_by_token: no row is a 404 without an access log.
FetchBegin(f, token) ==
  /\ fpc[f] = "f_idle"
  /\ \A g \in Fetchers : g < f => fpc[g] # "f_idle"
  /\ fetches < MaxFetches
  /\ fetches' = fetches + 1
  /\ LET l == [NoFetch EXCEPT !.n = fetches + 1, !.token = token,
                              !.user_id = SubscriptionByToken(token)]
     IN  \/ /\ cache[token].present
            /\ Respond(f, [l EXCEPT !.cached = "hit"], 200, cache[token].body,
                       IF l.user_id # NoUser THEN "success" ELSE "none")
         \/ \E c \in {"miss", "error"} :
              /\ c = "miss" => ~cache[token].present
              /\ IF l.user_id = NoUser
                 THEN Respond(f, [l EXCEPT !.cached = c], 404, ErrorBody, "none")
                 ELSE Proceed(f, [l EXCEPT !.cached = c], "f_user")
  /\ UNCHANGED <<nodes, node_updates, cache, now, access_logs>>
  /\ UNCHANGED <<users, billingVars, trafficVars, extVars>>

\* db::get_user_by_id and the status test
FetchGetUser(f) ==
  /\ fpc[f] = "f_user"
  /\ LET user == users[floc[f].user_id]
         l == [floc[f] EXCEPT !.user_status = user.status, !.read_at = now]
     IN  IF IsDisabled(user)
         THEN Respond(f, l, 401, ErrorBody, "disabled")
         ELSE Proceed(f, l, "f_quota")
  /\ UNCHANGED <<nodes, node_updates, cache, now, fetches, access_logs>>
  /\ UNCHANGED <<users, billingVars, trafficVars, extVars>>

\* traffic::check_traffic_quota(..).await.unwrap_or(false): a second read of
\* the user row; an error of the query counts as no traffic left
FetchCheckQuota(f) ==
  /\ fpc[f] = "f_quota"
  /\ \E result \in {"ok", "error"} :
       LET user == users[floc[f].user_id]
           has_traffic == IF result = "ok" THEN CheckTrafficQuota(user) ELSE FALSE
           l == [floc[f] EXCEPT !.has_traffic = IF has_traffic THEN "yes" ELSE "no",
                                !.db_error = (result = "error")]
       IN  IF ~has_traffic
           THEN Respond(f, l, 200, EmptyConfig, "quota_exceeded")
           ELSE Proceed(f, l, "f_package")
  /\ UNCHANGED <<nodes, node_updates, cache, now, fetches, access_logs>>
  /\ UNCHANGED <<users, billingVars, trafficVars, extVars>>

\* SELECT * FROM user_packages WHERE user_id = $1 AND status = 'active'
\* AND expires_at > NOW()
ValidPackages(u) ==
  {i \in DOMAIN user_packages :
     /\ user_packages[i].user_id = u
     /\ user_packages[i].status = "active"
     /\ user_packages[i].expires_at > now}

\* ... ORDER BY expires_at DESC LIMIT 1: the row of ValidPackages(u) with the
\* latest expires_at (of rows with equal expires_at, the one Postgres returns)
LatestValidPackage(u) ==
  CHOOSE i \in ValidPackages(u) :
    \A j \in ValidPackages(u) : user_packages[j].expires_at <= user_packages[i].expires_at

\* the tests for no valid package and for an exhausted package
FetchGetPackage(f) ==
  /\ fpc[f] = "f_package"
  /\ LET valid == ValidPackages(floc[f].user_id)
     IN  IF valid = {}
         THEN Respond(f, [floc[f] EXCEPT !.user_package = "none"],
                      200, EmptyConfig, "expired")
         ELSE LET user_package == user_packages[LatestValidPackage(floc[f].user_id)]
              IN  IF user_package.traffic_used >= user_package.traffic_quota
                  THEN Respond(f, [floc[f] EXCEPT !.user_package = "exhausted"],
                               200, EmptyConfig, "quota_exceeded")
                  ELSE Proceed(f, [floc[f] EXCEPT !.user_package = "valid"], "f_nodes")
  /\ UNCHANGED <<nodes, node_updates, cache, now, fetches, access_logs>>
  /\ UNCHANGED <<users, billingVars, trafficVars, extVars>>

\* nodes table, the columns no handler of the model writes: node 2 was
\* created after node 1 and sorts after it; the name is its rank among the names
NodeTable ==
  [n \in NodeIds |->
     [name |-> n, created_at |-> n, sort_order |-> n, include_in_clash |-> TRUE]]

RECURSIVE OrderBy(_, _)
\* ORDER BY: the ids of S in ascending order of key
OrderBy(S, key) ==
  IF S = {} THEN <<>>
  ELSE LET first == CHOOSE n \in S : \A m \in S : key[n] <= key[m]
       IN  <<first>> \o OrderBy(S \ {first}, key)

\* the id has a row: "absent" is an id nodes_id_seq has not handed out,
\* "deleted" the id of a row that DELETE removed
NodeExists(n) == nodes[n] \notin {"absent", "deleted"}

\* db::list_nodes_by_status: SELECT * FROM nodes WHERE status = $1
\* ORDER BY created_at DESC
list_nodes_by_status(status) ==
  OrderBy({n \in NodeIds : nodes[n] = status},
          [n \in NodeIds |-> -NodeTable[n].created_at])

\* db::list_clash_nodes: SELECT * FROM nodes WHERE include_in_clash = true
\* ORDER BY sort_order ASC, name ASC
list_clash_nodes ==
  OrderBy({n \in NodeIds : NodeExists(n) /\ NodeTable[n].include_in_clash},
          [n \in NodeIds |->
             NodeTable[n].sort_order * (Cardinality(NodeIds) + 1) + NodeTable[n].name])

\* db::list_nodes_by_status(.., "online"); the clash_proxies, clash_proxy_groups
\* and clash_rules tables are empty, so the configuration is generated by
\* clash::generate_clash_config(&nodes)
FetchListNodes(f) ==
  /\ fpc[f] = "f_nodes"
  /\ Proceed(f, [floc[f] EXCEPT !.online = <<list_nodes_by_status("online")>>], "f_cache")
  /\ UNCHANGED <<nodes, node_updates, cache, now, fetches, access_logs>>
  /\ UNCHANGED <<users, billingVars, trafficVars, extVars>>

\* a plausible slip: the error of cache_subscription_config is returned
FetchCacheConfigPropagates(f) ==
  /\ fpc[f] = "f_cache"
  /\ LET clash_config == ClashConfig(floc[f].online[1])
     IN  \/ /\ cache' = [cache EXCEPT ![floc[f].token] =
                           [present |-> TRUE, body |-> clash_config,
                            expires_at |-> ExpiresAt(now), stored_at |-> now,
                            read_at |-> floc[f].read_at,
                            updates_seen |-> node_updates]]
            /\ Respond(f, floc[f], 200, clash_config, "success")
         \/ /\ UNCHANGED cache
            /\ Respond(f, [floc[f] EXCEPT !.cache_error = TRUE], 500, ErrorBody, "none")
  /\ UNCHANGED <<nodes, node_updates, now, fetches, access_logs>>
  /\ UNCHANGED <<users, billingVars, trafficVars, extVars>>

\* redis_cache.cache_subscription_config (its error is only logged), the
\* UPDATE of subscriptions.last_accessed (its result is dropped) and the
\* success response
FetchCacheConfig(f) ==
  /\ fpc[f] = "f_cache"
  /\ LET clash_config == ClashConfig(floc[f].online[1])
     IN  \/ /\ cache' = [cache EXCEPT ![floc[f].token] =
                           [present |-> TRUE, body |-> clash_config,
                            expires_at |-> ExpiresAt(now), stored_at |-> now,
                            read_at |-> floc[f].read_at,
                            updates_seen |-> node_updates]]
            /\ Respond(f, floc[f], 200, clash_config, "success")
         \/ /\ UNCHANGED cache
            /\ Respond(f, [floc[f] EXCEPT !.cache_error = TRUE], 200, clash_config, "success")
  /\ UNCHANGED <<nodes, node_updates, now, fetches, access_logs>>
  /\ UNCHANGED <<users, billingVars, trafficVars, extVars>>

\* a query of the handler fails: get_user_by_id logs "failed" and returns
\* the error, the user_packages and nodes queries return it with `?`
FetchDbError(f) ==
  /\ fpc[f] \in {"f_user", "f_package", "f_nodes"}
  /\ Respond(f, [floc[f] EXCEPT !.db_error = TRUE], 500, ErrorBody,
             IF fpc[f] = "f_user" THEN "failed" ELSE "none")
  /\ UNCHANGED <<nodes, node_updates, cache, now, fetches, access_logs>>
  /\ UNCHANGED <<users, billingVars, trafficVars, extVars>>

\* the response is sent
FetchReturn(f) ==
  /\ fpc[f] = "f_respond"
  /\ fpc' = [fpc EXCEPT ![f] = "f_idle"]
  /\ floc' = [floc EXCEPT ![f] = NoFetch]
  /\ UNCHANGED <<nodes, node_updates, cache, now, fetches, tasks, access_logs>>
  /\ UNCHANGED <<users, billingVars, trafficVars, extVars>>

\* what a fetch that misses the cache answers for user u when it runs on
\* the present rows and all its queries succeed: the checks of the handler
\* in their order
FetchOutcome(u) ==
  IF IsDisabled(users[u]) THEN "disabled"
  ELSE IF ~CheckTrafficQuota(users[u]) THEN "quota_exceeded"
  ELSE IF ValidPackages(u) = {} THEN "expired"
  ELSE IF user_packages[LatestValidPackage(u)].traffic_used
            >= user_packages[LatestValidPackage(u)].traffic_quota THEN "quota_exceeded"
  ELSE "success"

Fetch(f) ==
  \/ \E token \in Tokens : FetchBegin(f, token)
  \/ FetchGetUser(f)
  \/ FetchCheckQuota(f)
  \/ FetchGetPackage(f)
  \/ FetchListNodes(f)
  \/ FetchCacheConfig(f)
  \/ FetchDbError(f)
  \/ FetchReturn(f)

\* the task spawned by log_access_async runs: db::create_access_log inserts
\* the row, or fails and the error is only logged
LogAccessTask(t) ==
  /\ t \in tasks
  /\ tasks' = tasks \ {t}
  /\ \/ access_logs' = access_logs \cup {[user_id |-> t.user_id, status |-> t.status]}
     \/ UNCHANGED access_logs
  /\ UNCHANGED <<nodes, node_updates, cache, now, fpc, floc, fetches>>
  /\ UNCHANGED <<users, billingVars, trafficVars, extVars>>

\* time passes; Redis removes the keys whose TTL has run out
Tick ==
  /\ now + TickSeconds <= MaxClock
  /\ now' = now + TickSeconds
  /\ cache' = [t \in Tokens |->
                 IF cache[t].present /\ cache[t].expires_at <= now + TickSeconds
                 THEN NoEntry ELSE cache[t]]
  /\ UNCHANGED <<nodes, node_updates, fpc, floc, fetches, tasks, access_logs>>
  /\ UNCHANGED <<users, billingVars, trafficVars, extVars>>

\* the cache loses its keys (restart, eviction, FLUSHALL)
CacheFlush ==
  /\ \E t \in Tokens : cache[t].present
  /\ cache' = [t \in Tokens |-> NoEntry]
  /\ UNCHANGED <<nodes, node_updates, now, fpc, floc, fetches, tasks, access_logs>>
  /\ UNCHANGED <<users, billingVars, trafficVars, extVars>>

(* ---------------------- node configuration updates --------------------- *)
\* cache.rs publishes on the channel "node:config:update"; the agent of node n
\* subscribes to format!("node:config:update:{}", node_id)
PublishChannel(n) == <<"node:config:update">>
AgentChannel(n) == <<"node:config:update", n>>

\* PUBLISH: Redis hands the message to the connections subscribed to exactly
\* this channel at this moment and keeps nothing
Publish(channel) ==
  [a \in NodeIds |->
     IF agent[a].subscribed /\ AgentChannel(a) = channel
     THEN [agent[a] EXCEPT !.inbox = @ + 1]
     ELSE agent[a]]

\* RedisCache::invalidate_active_nodes: DEL nodes:active; the handlers log
\* an Err and go on
InvalidateActiveNodes ==
  \/ nodes_active' = NoNodeList
  \/ UNCHANGED nodes_active

(* ------------------------ admin_update_node_handler -------------------- *)
\* db::update_node with payload.status, then invalidate_active_nodes (the
\* key nodes:active) and publish_node_config_update; no key
\* subscription:{token} is deleted
AdminUpdateNode(n, status) ==
  /\ node_updates < MaxNodeUpdates
  /\ NodeExists(n)
  /\ node_updates' = node_updates + 1
  /\ nodes' = [nodes EXCEPT ![n] = status]
  /\ node_rev' = [node_rev EXCEPT ![n] = @ + 1]
  /\ InvalidateActiveNodes
  /\ published' = Append(published, [channel |-> PublishChannel(n), node_id |-> n])
  /\ \/ agent' = Publish(PublishChannel(n))
     \/ UNCHANGED agent
  /\ UNCHANGED <<cache, now, fpc, floc, fetches, tasks, access_logs>>
  /\ UNCHANGED <<users, billingVars, trafficVars, linkVars, gateVars, node_resp>>
  /\ UNCHANGED <<hbProcVars, readerVars, pkgVars, syncVars, reportVars>>

(* ------------ admin_create_node_handler, admin_delete_node_handler ----- *)
\* db::create_node inserts the row with the next id of nodes_id_seq and the
\* status the table's default gives it, then invalidate_active_nodes; the
\* handler has no call of publish_node_config_update
AdminCreateNode(n, status) ==
  /\ node_updates < MaxNodeUpdates
  /\ nodes[n] = "absent"
  /\ \A m \in NodeIds : m < n => nodes[m] # "absent"
  /\ node_updates' = node_updates + 1
  /\ nodes' = [nodes EXCEPT ![n] = status]
  /\ InvalidateActiveNodes
  /\ UNCHANGED <<cache, now, fpc, floc, fetches, tasks, access_logs>>
  /\ UNCHANGED <<users, billingVars, trafficVars, linkVars, gateVars, nodeVars>>
  /\ UNCHANGED <<published, hbProcVars, readerVars, pkgVars, syncVars, reportVars>>

\* get_node_by_id (404 without a row), db::delete_node, then
\* invalidate_active_nodes; no call of publish_node_config_update either
AdminDeleteNode(n) ==
  /\ node_updates < MaxNodeUpdates
  /\ NodeExists(n)
  /\ node_updates' = node_updates + 1
  /\ nodes' = [nodes EXCEPT ![n] = "deleted"]
  /\ InvalidateActiveNodes
  /\ UNCHANGED <<cache, now, fpc, floc, fetches, tasks, access_logs>>
  /\ UNCHANGED <<users, billingVars, trafficVars, linkVars, gateVars, nodeVars>>
  /\ UNCHANGED <<published, hbProcVars, readerVars, pkgVars, syncVars, reportVars>>

(* ---------------- node_get_config_handler, node_heartbeat_handler ------ *)
\* a plausible slip: the node is looked up by its id alone
get_node_by_id_only(node_id, secret) ==
  IF node_id \in NodeIds /\ NodeExists(node_id) THEN node_id ELSE NoNode

\* db::get_node_by_id_and_secret: SELECT * FROM nodes WHERE id = $1 AND secret = $2
get_node_by_id_and_secret(node_id, secret) ==
  IF node_id \in NodeIds /\ NodeExists(node_id) /\ NodeSecret(node_id) = secret
  THEN node_id ELSE NoNode

\* SELECT DISTINCT u.id, u.email FROM users u INNER JOIN user_packages up ..
\* WHERE u.status = 'active' AND up.status = 'active' AND up.expires_at > NOW()
\* AND up.traffic_used < up.traffic_quota
ActiveUsers ==
  {u \in Users :
     /\ users[u].status = "active"
     /\ \E i \in DOMAIN user_packages :
          /\ user_packages[i].user_id = u
          /\ user_packages[i].status = "active"
          /\ user_packages[i].expires_at > now
          /\ user_packages[i].traffic_used < user_packages[i].traffic_quota}

\* the response of GET /api/node/config?node_id=..&secret=..; result says
\* whether the queries of the handler succeed
NodeConfigResponse(node_id, secret, result) ==
  LET node == get_node_by_id_and_secret(node_id, secret)
      request == [NoNodeResponse EXCEPT !.endpoint = "config", !.node_id = node_id,
                                        !.secret = secret]
  IN  IF result = "error"
      THEN [request EXCEPT !.http = 500, !.db_error = TRUE]
      ELSE IF node = NoNode
           THEN [request EXCEPT !.http = 401]
           ELSE [request EXCEPT !.http = 200, !.node = node, !.users = ActiveUsers,
                                !.rev = node_rev[node]]

NodeGetConfig(node_id, secret) ==
  /\ \E result \in {"ok", "error"} :
       node_resp' = NodeConfigResponse(node_id, secret, result)
  /\ UNCHANGED <<users, billingVars, trafficVars, moreVars, subVars, linkVars, gateVars,
                 node_rev, agent>>

\* POST /api/node/heartbeat served without another request in between:
\* get_node_by_id_and_secret, then db::update_node_heartbeat sets the status
\* of the row, then invalidate_active_nodes when the status changed
NodeHeartbeat(node_id, secret, status) ==
  /\ \E result \in {"ok", "error"} :
       LET node == get_node_by_id_and_secret(node_id, secret)
           request == [NoNodeResponse EXCEPT !.endpoint = "heartbeat",
                                             !.node_id = node_id, !.secret = secret]
       IN  IF result = "error"
           THEN /\ node_resp' = [request EXCEPT !.http = 500, !.db_error = TRUE]
                /\ UNCHANGED <<nodes, nodes_active>>
           ELSE IF node = NoNode
                THEN /\ node_resp' = [request EXCEPT !.http = 401]
                     /\ UNCHANGED <<nodes, nodes_active>>
                ELSE /\ node_resp' = [request EXCEPT !.http = 200, !.node = node]
                     /\ nodes' = [nodes EXCEPT ![node] = status]
                     /\ IF nodes[node] # status
                        THEN InvalidateActiveNodes
                        ELSE UNCHANGED nodes_active
  /\ UNCHANGED <<node_updates, cache, now, fpc, floc, fetches, tasks, access_logs>>
  /\ UNCHANGED <<users, billingVars, trafficVars, linkVars, gateVars, node_rev, agent>>
  /\ UNCHANGED <<published, hbProcVars, readerVars, pkgVars, syncVars, reportVars>>

(* ------------- node_heartbeat_handler, one statement at a time --------- *)
\* the request arrives with the node's own secret: get_node_by_id_and_secret
\* reads the row; 401 without one
HeartbeatBegin(h, n, status) ==
  /\ hpc[h] = "h_idle"
  /\ \A g \in Heartbeaters : g < h => hpc[g] # "h_idle"
  /\ heartbeats < MaxHeartbeats
  /\ heartbeats' = heartbeats + 1
  /\ LET node == get_node_by_id_and_secret(n, NodeSecret(n))
     IN  IF node = NoNode
         THEN /\ hloc' = [hloc EXCEPT ![h] = [NoHeartbeat EXCEPT !.node_id = n,
                                                 !.status = status, !.http = 401]]
              /\ hpc' = [hpc EXCEPT ![h] = "h_done"]
         ELSE /\ hloc' = [hloc EXCEPT ![h] = [NoHeartbeat EXCEPT !.node_id = n,
                                                 !.status = status,
                                                 !.node_status = nodes[node]]]
              /\ hpc' = [hpc EXCEPT ![h] = "h_update"]
  /\ UNCHANGED <<users, billingVars, trafficVars, subVars, linkVars, gateVars, nodeVars>>
  /\ UNCHANGED <<published, nodes_active, readerVars, pkgVars, syncVars, reportVars>>

\* db::update_node_heartbeat: UPDATE nodes SET status = $2 .. WHERE id = $1
\* RETURNING * with fetch_one, an Err when the row is gone; then the test
\* node.status != updated_node.status
HeartbeatUpdate(h) ==
  /\ hpc[h] = "h_update"
  /\ LET n == hloc[h].node_id
     IN  IF ~NodeExists(n)
         THEN /\ hloc' = [hloc EXCEPT ![h].http = 500]
              /\ hpc' = [hpc EXCEPT ![h] = "h_done"]
              /\ UNCHANGED nodes
         ELSE /\ nodes' = [nodes EXCEPT ![n] = hloc[h].status]
              /\ hloc' = [hloc EXCEPT ![h].changed = (nodes[n] # hloc[h].status)]
              /\ hpc' = [hpc EXCEPT ![h] =
                           IF hloc[h].node_status # hloc[h].status
                           THEN "h_invalidate" ELSE "h_respond"]
  /\ UNCHANGED <<node_updates, cache, now, fpc, floc, fetches, tasks, access_logs>>
  /\ UNCHANGED <<users, billingVars, trafficVars, linkVars, gateVars, nodeVars>>
  /\ UNCHANGED <<published, nodes_active, heartbeats, readerVars, pkgVars, syncVars,
                 reportVars>>

\* state.redis_cache.invalidate_active_nodes()
HeartbeatInvalidate(h) ==
  /\ hpc[h] = "h_invalidate"
  /\ InvalidateActiveNodes
  /\ hloc' = [hloc EXCEPT ![h].invalidated = TRUE]
  /\ hpc' = [hpc EXCEPT ![h] = "h_respond"]
  /\ UNCHANGED <<users, billingVars, trafficVars, subVars, linkVars, gateVars, nodeVars>>
  /\ UNCHANGED <<published, heartbeats, readerVars, pkgVars, syncVars, reportVars>>

\* Ok(Json(..)): "Heartbeat received"
HeartbeatRespond(h) ==
  /\ hpc[h] = "h_respond"
  /\ hloc' = [hloc EXCEPT ![h].http = 200]
  /\ hpc' = [hpc EXCEPT ![h] = "h_done"]
  /\ UNCHANGED <<users, billingVars, trafficVars, subVars, linkVars, gateVars, nodeVars>>
  /\ UNCHANGED <<published, nodes_active, heartbeats, readerVars, pkgVars, syncVars,
                 reportVars>>

Heartbeat(h) ==
  \/ \E n \in NodeIds, status \in {"online", "offline"} : HeartbeatBegin(h, n, status)
  \/ HeartbeatUpdate(h)
  \/ HeartbeatInvalidate(h)
  \/ HeartbeatRespond(h)

(* ---------------------- get_active_nodes_with_cache -------------------- *)
\* GET nodes:active: the entry unless its 60 seconds have passed
LiveNodeList ==
  IF nodes_active.present /\ nodes_active.expires_at > now THEN nodes_active ELSE NoNodeList

\* the call starts: a hit returns the cached list, a miss or an Err of the
\* cache goes on to the table
ActiveNodesGet ==
  /\ rpc = "r_idle"
  /\ reads < MaxReads
  /\ reads' = reads + 1
  /\ \/ /\ LiveNodeList.present
        /\ rloc' = LiveNodeList.list
        /\ rpc' = "r_done"
     \/ /\ rloc' = <<>>
        /\ rpc' = "r_list"
  /\ UNCHANGED <<users, billingVars, trafficVars, subVars, linkVars, gateVars, nodeVars>>
  /\ UNCHANGED <<published, nodes_active, hbProcVars, pkgVars, syncVars, reportVars>>

\* db::list_nodes_by_status(&state.db_pool, "online")
ActiveNodesList ==
  /\ rpc = "r_list"
  /\ rloc' = list_nodes_by_status("online")
  /\ rpc' = "r_cache"
  /\ UNCHANGED <<users, billingVars, trafficVars, subVars, linkVars, gateVars, nodeVars>>
  /\ UNCHANGED <<published, nodes_active, hbProcVars, reads, pkgVars, syncVars, reportVars>>

\* cache_active_nodes: SET nodes:active .. EX 60; an Err is logged
ActiveNodesCache ==
  /\ rpc = "r_cache"
  /\ \/ nodes_active' = [present |-> TRUE, list |-> rloc,
                          expires_at |-> now + ActiveNodesTtl]
     \/ UNCHANGED nodes_active
  /\ rpc' = "r_done"
  /\ UNCHANGED <<users, billingVars, trafficVars, subVars, linkVars, gateVars, nodeVars>>
  /\ UNCHANGED <<published, hbProcVars, rloc, reads, pkgVars, syncVars, reportVars>>

\* Ok(nodes): the call is over
ActiveNodesReturn ==
  /\ rpc = "r_done"
  /\ rpc' = "r_idle"
  /\ UNCHANGED <<users, billingVars, trafficVars, subVars, linkVars, gateVars, nodeVars>>
  /\ UNCHANGED <<published, nodes_active, hbProcVars, rloc, reads, pkgVars, syncVars,
                 reportVars>>

get_active_nodes_with_cache ==
  \/ ActiveNodesGet
  \/ ActiveNodesList
  \/ ActiveNodesCache
  \/ ActiveNodesReturn

(* ------------------------------ node agent ----------------------------- *)
\* serde reads the response as NodeConfig { users: Vec<UserConfig { id: String, .. }> };
\* the handler sends the id of a user as a JSON number, so a response that
\* lists a user does not parse
ParsesAsNodeConfig(response) == response.users = {}

\* ConfigSync::register_and_fetch_config with the agent's own node_id and
\* secret: the revision stored in current_config, -1 for Err
FetchConfig(n, result) ==
  LET response == NodeConfigResponse(n, NodeSecret(n), result)
  IN  IF response.http = 200 /\ ParsesAsNodeConfig(response) THEN response.rev ELSE -1

\* the agent starts: register_and_fetch_config, then subscribe_to_updates
\* subscribes to the channel of the node and spawns the receive loop
AgentStart(n) ==
  /\ ~agent[n].started
  /\ \E result \in {"ok", "error"} :
       LET rev == FetchConfig(n, result)
       IN  /\ rev # -1
           /\ agent' = [agent EXCEPT ![n] = [@ EXCEPT !.started = TRUE, !.subscribed = TRUE,
                                                    !.fetched = rev]]
  /\ UNCHANGED <<users, billingVars, trafficVars, moreVars, subVars, linkVars, gateVars,
                 node_rev, node_resp>>

\* stream.next() yields Some(msg): the loop fetches the configuration and
\* applies it; a failed fetch or a failed apply_config is only logged
AgentOnMessage(n) ==
  /\ agent[n].subscribed
  /\ agent[n].inbox > 0
  /\ \E result \in {"ok", "error"}, applies \in BOOLEAN :
       LET rev == FetchConfig(n, result)
       IN  agent' = [agent EXCEPT ![n] =
                       [@ EXCEPT !.inbox = @ - 1,
                                 !.fetched = IF rev # -1 THEN rev ELSE @,
                                 !.applied = IF rev # -1 /\ applies THEN rev ELSE @]]
  /\ UNCHANGED <<users, billingVars, trafficVars, moreVars, subVars, linkVars, gateVars,
                 node_rev, node_resp>>

\* the receive loop of subscribe_to_updates: Some(msg) as above; None when
\* the connection ends, then the loop breaks and nothing subscribes again
AgentNextMessage(n) ==
  /\ agent[n].subscribed
  /\ \/ AgentOnMessage(n)
     \/ /\ agent' = [agent EXCEPT ![n] = [@ EXCEPT !.subscribed = FALSE, !.inbox = 0]]
        /\ UNCHANGED <<users, billingVars, trafficVars, moreVars, subVars, linkVars, gateVars,
                       node_rev, node_resp>>

\* the routes create_router mounts for node agents
NodeRoutes == {"/api/node/config", "/api/node/heartbeat"}

\* UserManager's loop, the only periodic request of the agent besides the
\* heartbeat: GET /api/node/users; a response that is not a success is an
\* Err that is logged, and current_config is not touched either way
AgentSyncUsers(n) ==
  /\ agent[n].started
  /\ agent[n].polls < MaxPolls
  /\ LET http == IF "/api/node/users" \in NodeRoutes THEN 200 ELSE 404
     IN  agent' = [agent EXCEPT ![n] = [@ EXCEPT !.polls = @ + 1, !.sync_http = http]]
  /\ UNCHANGED <<users, billingVars, trafficVars, moreVars, subVars, linkVars, gateVars,
                 node_rev, node_resp>>

Agent(n) ==
  \/ AgentStart(n)
  \/ AgentNextMessage(n)
  \/ AgentSyncUsers(n)

(* ------------------------ UserManager (node agent) --------------------- *)
\* what GET {api_url}/api/node/users brings: an error (no connection, a
\* status that is not a success, a body that does not parse) or the users
\* of an ActiveUsersResponse, some of them over their quota
SyncResponses ==
  {[ok |-> FALSE, todo |-> {}, over |-> {}]}
    \cup {[ok |-> TRUE, todo |-> L, over |-> O] : L \in SUBSET Users, O \in SUBSET Users}

\* the request of sync_active_users and the parse of its response; an Err
\* returns before active_users is touched and the loop waits for the next tick
SyncFetch(n, response) ==
  /\ spc[n] = "s_idle"
  /\ syncs < MaxSyncs
  /\ syncs' = syncs + 1
  /\ IF ~response.ok
     THEN UNCHANGED <<spc, sloc>>
     ELSE /\ response.over \subseteq response.todo
          /\ sloc' = [sloc EXCEPT ![n] = [todo |-> response.todo, over |-> response.over]]
          /\ spc' = [spc EXCEPT ![n] = "s_lock"]
  /\ UNCHANGED <<users, billingVars, trafficVars, subVars, linkVars, gateVars, nodeVars>>
  /\ UNCHANGED <<hbVars, pkgVars, reportVars>>
  /\ UNCHANGED <<active_users, users_lock, complete, observed, user_reads>>

\* let mut users_set = active_users.write().await
SyncLock(n) ==
  /\ spc[n] = "s_lock"
  /\ ~users_lock[n]
  /\ users_lock' = [users_lock EXCEPT ![n] = TRUE]
  /\ spc' = [spc EXCEPT ![n] = "s_clear"]
  /\ UNCHANGED <<users, billingVars, trafficVars, subVars, linkVars, gateVars, nodeVars>>
  /\ UNCHANGED <<hbVars, pkgVars, reportVars>>
  /\ UNCHANGED <<active_users, sloc, complete, observed, syncs, user_reads>>

\* users_set.clear()
SyncClear(n) ==
  /\ spc[n] = "s_clear"
  /\ active_users' = [active_users EXCEPT ![n] = {}]
  /\ spc' = [spc EXCEPT ![n] = "s_insert"]
  /\ UNCHANGED <<users, billingVars, trafficVars, subVars, linkVars, gateVars, nodeVars>>
  /\ UNCHANGED <<hbVars, pkgVars, reportVars>>
  /\ UNCHANGED <<users_lock, sloc, complete, observed, syncs, user_reads>>

\* one round of `for user in &users_response.users`: a user over the quota
\* is skipped, another one is inserted
SyncInsert(n, u) ==
  /\ spc[n] = "s_insert"
  /\ u \in sloc[n].todo
  /\ active_users' = [active_users EXCEPT
                        ![n] = IF u \in sloc[n].over THEN @ ELSE @ \cup {u}]
  /\ sloc' = [sloc EXCEPT ![n].todo = @ \ {u}]
  /\ UNCHANGED <<users, billingVars, trafficVars, subVars, linkVars, gateVars, nodeVars>>
  /\ UNCHANGED <<hbVars, pkgVars, reportVars>>
  /\ UNCHANGED <<users_lock, spc, complete, observed, syncs, user_reads>>

\* drop(users_set) after the loop; Ok(count)
SyncUnlock(n) ==
  /\ spc[n] = "s_insert"
  /\ sloc[n].todo = {}
  /\ users_lock' = [users_lock EXCEPT ![n] = FALSE]
  /\ complete' = [complete EXCEPT ![n] = active_users[n]]
  /\ sloc' = [sloc EXCEPT ![n] = NoSync]
  /\ spc' = [spc EXCEPT ![n] = "s_idle"]
  /\ UNCHANGED <<users, billingVars, trafficVars, subVars, linkVars, gateVars, nodeVars>>
  /\ UNCHANGED <<hbVars, pkgVars, reportVars>>
  /\ UNCHANGED <<active_users, observed, syncs, user_reads>>

\* a plausible slip: the set is read without the lock
ReadLockAlways(n) == TRUE

\* self.active_users.read().await returns while no task holds the write half
ReadLockGranted(n) == ~users_lock[n]

\* get_active_users, is_user_active and get_xray_user_configs: the read
\* guard is taken, the set is read and the guard is dropped without an await
\* in between
ReadActiveUsers(n) ==
  /\ user_reads < MaxUserReads
  /\ ReadLockGranted(n)
  /\ user_reads' = user_reads + 1
  /\ observed' = [node |-> n, users |-> active_users[n]]
  /\ UNCHANGED <<users, billingVars, trafficVars, subVars, linkVars, gateVars, nodeVars>>
  /\ UNCHANGED <<hbVars, pkgVars, reportVars>>
  /\ UNCHANGED <<active_users, users_lock, spc, sloc, complete, syncs>>

UserManager(n) ==
  \/ \E response \in SyncResponses : SyncFetch(n, response)
  \/ SyncLock(n)
  \/ SyncClear(n)
  \/ \E u \in Users : SyncInsert(n, u)
  \/ SyncUnlock(n)
  \/ ReadActiveUsers(n)

(* ----------------------- TrafficReporter (node agent) ------------------ *)
\* the engine of node n counts a byte of user u
Consume(n, u) ==
  /\ consumed < MaxBytes
  /\ consumed' = consumed + 1
  /\ xray' = [xray EXCEPT ![n][u] = @ + 1]
  /\ UNCHANGED <<users, billingVars, trafficVars, subVars, linkVars, gateVars, nodeVars>>
  /\ UNCHANGED <<hbVars, pkgVars, syncVars>>
  /\ UNCHANGED <<tpc, tloc, collected>>

\* fetch_xray_traffic: POST /stats/query {"pattern": "user>>>", "reset": true}
\* returns the counters and sets them to zero; parse_xray_stats makes one
\* UserTraffic per user.  (A request that fails or is answered with an error
\* status gives Ok(Vec::new()), and an empty traffic_data returns Ok(0):
\* both leave every variable as it is.)
ReportFetch(n) ==
  /\ tpc[n] = "t_idle"
  /\ \E u \in Users : xray[n][u] > 0
  /\ tloc' = [tloc EXCEPT ![n] = xray[n]]
  /\ collected' = [u \in Users |-> collected[u] + xray[n][u]]
  /\ xray' = [xray EXCEPT ![n] = NoTraffic]
  /\ tpc' = [tpc EXCEPT ![n] = "t_report"]
  /\ UNCHANGED <<users, billingVars, trafficVars, subVars, linkVars, gateVars, nodeVars>>
  /\ UNCHANGED <<hbVars, pkgVars, syncVars>>
  /\ UNCHANGED consumed

\* one round of `for user_traffic in &traffic_data`, in the order of the
\* HashMap: XADD traffic_stream * node_id .. user_id .. upload .. download ..
\* timestamp ..; an Err of XADD leaves the function through `?`, and the
\* rest of traffic_data is dropped with it
ReportXadd(n, u) ==
  /\ tpc[n] = "t_report"
  /\ tloc[n][u] > 0
  /\ \/ /\ stream' = Append(stream, StreamEntry(TRUE, u, tloc[n][u], 0))
        /\ tloc' = [tloc EXCEPT ![n][u] = 0]
        /\ tpc' = [tpc EXCEPT ![n] = IF \A v \in Users \ {u} : tloc[n][v] = 0
                                      THEN "t_idle" ELSE "t_report"]
     \/ /\ UNCHANGED stream
        /\ tloc' = [tloc EXCEPT ![n] = NoTraffic]
        /\ tpc' = [tpc EXCEPT ![n] = "t_idle"]
  /\ UNCHANGED <<delivered, pending, acked, wpc, wloc, applied, times, delivery_count>>
  /\ UNCHANGED <<users, billingVars, subVars, linkVars, gateVars, nodeVars>>
  /\ UNCHANGED <<hbVars, pkgVars, syncVars>>
  /\ UNCHANGED <<xray, collected, consumed>>

TrafficReporter(n) ==
  \/ \E u \in Users : Consume(n, u)
  \/ ReportFetch(n)
  \/ \E u \in Users : ReportXadd(n, u)

(* --------------------- get_subscription_link_handler ------------------- *)
\* the answer is built: status, and for 200 the token of the subscription
LinkRespond(l, http, token) ==
  /\ lpc' = [lpc EXCEPT ![l] = "l_respond"]
  /\ lloc' = [lloc EXCEPT ![l] = [@ EXCEPT !.http = http, !.token = token]]

\* verify_token gives claims.sub = u; db::get_user_by_id and the test for a
\* disabled account
LinkBegin(l, u) ==
  /\ lpc[l] = "l_idle"
  /\ token_seq + Cardinality({k \in Linkers : lpc[k] # "l_idle"}) < MaxTokens
  /\ IF users[u].status = "disabled"
     THEN /\ lpc' = [lpc EXCEPT ![l] = "l_respond"]
          /\ lloc' = [lloc EXCEPT ![l] = [NoLink EXCEPT !.user_id = u, !.http = 401]]
     ELSE /\ lpc' = [lpc EXCEPT ![l] = "l_select"]
          /\ lloc' = [lloc EXCEPT ![l] = [NoLink EXCEPT !.user_id = u]]
  /\ UNCHANGED <<subscriptions, token_seq, links>>
  /\ UNCHANGED <<users, billingVars, trafficVars, moreVars, subVars, gateVars, nodeVars>>

\* SELECT * FROM subscriptions WHERE user_id = $1: an existing row is the answer
LinkSelect(l) ==
  /\ lpc[l] = "l_select"
  /\ LET existing == subscriptions[lloc[l].user_id]
     IN  IF existing # NoToken
         THEN /\ lpc' = [lpc EXCEPT ![l] = "l_respond"]
              /\ lloc' = [lloc EXCEPT ![l] = [@ EXCEPT !.existing = existing,
                                                     !.http = 200, !.token = existing]]
         ELSE /\ lpc' = [lpc EXCEPT ![l] = "l_generate"]
              /\ UNCHANGED lloc
  /\ UNCHANGED <<subscriptions, token_seq, links>>
  /\ UNCHANGED <<users, billingVars, trafficVars, moreVars, subVars, gateVars, nodeVars>>

\* utils::generate_subscription_token: 64 random characters, a token no
\* earlier call has produced; the loop on db::get_subscription_by_token ends
\* at once because no row holds it
LinkGenerate(l) ==
  /\ lpc[l] = "l_generate"
  /\ LET token == token_seq + 1
     IN  /\ SubscriptionByToken(token) = NoUser
         /\ token_seq' = token
         /\ lloc' = [lloc EXCEPT ![l] = [@ EXCEPT !.token = token]]
  /\ lpc' = [lpc EXCEPT ![l] = "l_insert"]
  /\ UNCHANGED <<subscriptions, links>>
  /\ UNCHANGED <<users, billingVars, trafficVars, moreVars, subVars, gateVars, nodeVars>>

\* a plausible slip: ON CONFLICT (user_id) DO NOTHING, then the stored row is read
create_subscription_keeps(held, token) == IF held # NoToken THEN held ELSE token

\* db::create_subscription: INSERT .. ON CONFLICT (user_id) DO UPDATE SET
\* token = $2 RETURNING *: the token of the row of the user after the statement
create_subscription(held, token) == token

\* the handler calls db::create_subscription and answers with the row it returns
LinkInsert(l) ==
  /\ lpc[l] = "l_insert"
  /\ LET u == lloc[l].user_id
         token == create_subscription(subscriptions[u], lloc[l].token)
     IN  /\ subscriptions' = [subscriptions EXCEPT ![u] = token]
         /\ LinkRespond(l, 200, token)
  /\ UNCHANGED <<token_seq, links>>
  /\ UNCHANGED <<users, billingVars, trafficVars, moreVars, subVars, gateVars, nodeVars>>

\* a query of the handler fails and the error is returned with `?`
LinkDbError(l) ==
  /\ lpc[l] \in {"l_select", "l_insert"}
  /\ LinkRespond(l, 500, NoToken)
  /\ UNCHANGED <<subscriptions, token_seq, links>>
  /\ UNCHANGED <<users, billingVars, trafficVars, moreVars, subVars, gateVars, nodeVars>>

\* the response is sent: a 200 hands its token to the user
LinkReturn(l) ==
  /\ lpc[l] = "l_respond"
  /\ links' = IF lloc[l].http = 200
              THEN links \cup {[user_id |-> lloc[l].user_id, token |-> lloc[l].token]}
              ELSE links
  /\ lpc' = [lpc EXCEPT ![l] = "l_idle"]
  /\ lloc' = [lloc EXCEPT ![l] = NoLink]
  /\ UNCHANGED <<subscriptions, token_seq>>
  /\ UNCHANGED <<users, billingVars, trafficVars, moreVars, subVars, gateVars, nodeVars>>

Link(l) ==
  \/ \E u \in Users : LinkBegin(l, u)
  \/ LinkSelect(l)
  \/ LinkGenerate(l)
  \/ LinkInsert(l)
  \/ LinkDbError(l)
  \/ LinkReturn(l)

(* ----------------------- authorization, rate limit --------------------- *)
\* the layers create_router puts on the routes: .layer(cors) only; neither
\* middleware::admin_middleware nor middleware::rate_limit_middleware is mounted
RouterLayers == {"cors"}

\* the Authorization header of a request: absent, a token verify_token
\* rejects (bad signature, past its exp), or the valid token of a user
\* without or with is_admin
Credentials == {"missing", "invalid", "expired", "user", "admin"}

\* utils::verify_token: Ok(claims) for a token with a valid signature and a future exp
verify_token(credential) == credential \in {"user", "admin"}

\* middleware::admin_middleware: the status of the AuthError, 0 for next.run
admin_middleware(credential) ==
  IF credential = "missing" THEN 401
  ELSE IF ~verify_token(credential) THEN 401
  ELSE IF credential # "admin" THEN 403
  ELSE 0

\* the first lines of every admin handler: the status of the ApiError
\* (Unauthorized in all three cases), 0 when the handler goes on
AdminAccessRequired(credential) ==
  IF credential = "missing" THEN 401
  ELSE IF ~verify_token(credential) THEN 401
  ELSE IF credential # "admin" THEN 401
  ELSE 0

\* what a request to an admin route meets before the body of the handler
AdminGate(credential) ==
  IF "admin" \in RouterLayers /\ admin_middleware(credential) # 0
  THEN admin_middleware(credential)
  ELSE AdminAccessRequired(credential)

\* PUT /api/admin/users/{u}/balance with a credential
AdminBalanceRequest(p, credential, u, amount) ==
  IF AdminGate(credential) # 0
  THEN /\ rejected' = [credential |-> credential, http |-> AdminGate(credential)]
       /\ UNCHANGED <<users, billingVars, trafficVars, moreVars, subVars, linkVars, nodeVars,
                      rate_limit, let_through>>
  ELSE AdminBalanceRead(p, u, amount)

\* the counter of a user that Redis still holds: a key with a TTL is gone
\* once the TTL has run out
LiveCounter(u) ==
  IF rate_limit[u].expires_at # 0 /\ rate_limit[u].expires_at <= now
  THEN NoCounter
  ELSE rate_limit[u]

\* the request reaches its handler; the ghost window of the user starts with
\* the first request let through after the previous window ended
LetThrough(u) ==
  let_through' =
    [let_through EXCEPT ![u] =
       IF @.count = 0 \/ now >= @.since + RateWindow
       THEN [since |-> now, count |-> 1, requests |-> @.requests + 1, limited |-> @.limited]
       ELSE [@ EXCEPT !.count = @ + 1, !.requests = @ + 1]]

\* middleware::rate_limit_middleware for the key rate_limit:user:{u}: INCR,
\* EXPIRE 60 on the first request (its result is dropped), 429 above 60, and
\* next.run when INCR fails
rate_limit_middleware(u) ==
  \/ \E expire_ok \in BOOLEAN :
       LET current_count == LiveCounter(u).count + 1
       IN  /\ rate_limit' =
                [rate_limit EXCEPT ![u] =
                   [count |-> current_count,
                    expires_at |-> IF current_count = 1
                                   THEN (IF expire_ok THEN now + RateWindow ELSE 0)
                                   ELSE LiveCounter(u).expires_at]]
           /\ IF current_count > RateLimit
              THEN let_through' = [let_through EXCEPT ![u] =
                                     [@ EXCEPT !.requests = @ + 1, !.limited = @ + 1]]
              ELSE LetThrough(u)
  \/ /\ UNCHANGED rate_limit
     /\ LetThrough(u)

\* a request of user u to a router that carries the middleware as a layer
RateLimitedRequest(u) ==
  /\ let_through[u].requests < MaxRequests
  /\ rate_limit_middleware(u)
  /\ UNCHANGED <<users, billingVars, trafficVars, moreVars, subVars, linkVars, nodeVars, rejected>>

\* a request of user u to a route of create_router
ApiRequest(u) ==
  /\ let_through[u].requests < MaxRequests
  /\ IF "rate_limit" \in RouterLayers
     THEN rate_limit_middleware(u)
     ELSE /\ LetThrough(u)
          /\ UNCHANGED rate_limit
  /\ UNCHANGED <<users, billingVars, trafficVars, moreVars, subVars, linkVars, nodeVars, rejected>>

Purchase(p) ==
  \/ \E u \in Users, k \in Packages : PurchaseLoadPackage(p, u, k)
  \/ PurchaseLockUser(p)
  \/ PurchaseInsertOrder(p)
  \/ PurchaseDeductBalance(p)
  \/ PurchaseInsertCoinTransaction(p)
  \/ PurchaseAddQuota(p)
  \/ PurchaseInsertUserPackage(p)
  \/ PurchaseCompleteOrder(p)
  \/ PurchaseCommit(p)
  \/ ProcessReferralRebate(p)

BillingNext ==
  \E p \in Procs :
    \/ Purchase(p)
    \/ AdminBalance(p)
    \/ \E u \in Users, st \in {"active", "disabled"} : AdminUpdateUserStatus(p, u, st)
    \/ Coins(p)
    \/ DbError(p)
    \/ Return(p)

SpecBilling == Init /\ [][BillingNext]_vars

\* purchases only, each request served once, no database failure
PurchaseNext ==
  \E p \in Procs : Purchase(p)

SpecPurchase == InitLowBalance /\ [][PurchaseNext]_vars

\* purchases while rows of the packages table are changed
PackageNext ==
  \/ \E p \in Procs : Purchase(p) \/ Return(p)
  \/ \E k \in Packages, price \in PackagePrices, is_active \in PackageFlags :
       update_package(k, price, is_active)
  \/ \E k \in Packages : delete_package(k)

SpecPackage == Init /\ [][PackageNext]_vars

TrafficNext ==
  \/ \E entry \in Tuples : XAdd(entry)
  \/ \E w \in Workers : Worker(w)
  \/ \E p \in Procs : AdminTraffic(p) \/ Return(p)

SpecTraffic == Init /\ [][TrafficNext]_vars

\* the bodies of admin requests that set traffic_quota and leave traffic_used out
QuotaPayloads == {[traffic_quota |-> <<0>>, traffic_used |-> <<>>],
                  [traffic_quota |-> <<5>>, traffic_used |-> <<>>]}

\* the aggregator at work while admins set quotas
QuotaNext ==
  \/ \E entry \in Tuples : XAdd(entry)
  \/ \E w \in Workers : Worker(w)
  \/ \E p \in Procs :
       \/ \E u \in Users, payload \in QuotaPayloads : AdminTrafficRead(p, u, payload)
       \/ AdminTrafficUpdate(p)
       \/ Return(p)

SpecQuota == Init /\ [][QuotaNext]_vars

\* TrafficProcessor::start loops forever: a worker that can take a step takes one
SpecTrafficLive ==
  Init /\ [][TrafficNext]_vars /\ \A w \in Workers : WF_vars(Worker(w))

\* the admin requests of a subscription behaviour are those that change a
\* row: an online node is taken offline, the active user 1 is disabled, the
\* quota of user 1 is set to 0
SubscriptionNext ==
  \/ \E f \in Fetchers : Fetch(f)
  \/ \E t \in tasks : LogAccessTask(t)
  \/ Tick
  \/ CacheFlush
  \/ \E n \in NodeIds : nodes[n] = "online" /\ AdminUpdateNode(n, "offline")
  \/ users[1].status = "active" /\ AdminUpdateUserStatus(1, 1, "disabled")
  \/ /\ users[1].traffic_quota > 0
     /\ AdminTrafficRead(1, 1, [traffic_quota |-> <<0>>, traffic_used |-> <<>>])
  \/ AdminTrafficUpdate(1)
  \/ Return(1)

SpecSubscription == InitSubscription /\ [][SubscriptionNext]_vars

\* fetches of user 1 while time passes and entitlements run out
EntitlementNext ==
  \/ \E f \in Fetchers : Fetch(f)
  \/ \E t \in tasks : LogAccessTask(t)
  \/ Tick

SpecEntitlement == InitEntitlements /\ [][EntitlementNext]_vars

\* the node endpoints are called with every pair of a stored node id and a
\* secret; an admin takes an online node offline
NodeNext ==
  \/ \E n \in NodeIds : nodes[n] = "online" /\ AdminUpdateNode(n, "offline")
  \/ \E n \in NodeIds, secret \in Secrets : NodeGetConfig(n, secret)
  \/ \E n \in NodeIds, secret \in Secrets, status \in {"online", "offline"} :
       NodeHeartbeat(n, secret, status)
  \/ \E n \in NodeIds : Agent(n)
  \/ Tick

\* admins create, update and delete nodes while heartbeats arrive and the
\* list of online nodes is read through the cache
NodeAdminNext ==
  \/ \E n \in NodeIds, status \in {"online", "offline"} : AdminCreateNode(n, status)
  \/ \E n \in NodeIds, status \in {"online", "offline"} : AdminUpdateNode(n, status)
  \/ \E n \in NodeIds : AdminDeleteNode(n)
  \/ \E h \in Heartbeaters : Heartbeat(h)
  \/ get_active_nodes_with_cache
  \/ Tick

SpecNodeAdmin == InitNodes /\ [][NodeAdminNext]_vars

\* the user managers of the agents: their sync loops and their readers
UsersNext ==
  \E n \in NodeIds : UserManager(n)

SpecUsers == Init /\ [][UsersNext]_vars

\* requests of user 1 pass through rate_limit_middleware while time passes
LimiterNext ==
  \/ RateLimitedRequest(1)
  \/ Tick

SpecLimiter == Init /\ [][LimiterNext]_vars

\* the traffic reporters of the agents while their engines count traffic
ReportNext ==
  \E n \in NodeIds : TrafficReporter(n)

SpecReport == Init /\ [][ReportNext]_vars

SpecNode == InitSubscription /\ [][NodeNext]_vars

\* the agent's loops run forever: a start that can succeed, a notification
\* that waits in the stream and a due round of the user sync are taken up
SpecNodeLive ==
  /\ InitSubscription /\ [][NodeNext]_vars
  /\ \A n \in NodeIds :
       WF_vars(AgentStart(n)) /\ WF_vars(AgentOnMessage(n)) /\ WF_vars(AgentSyncUsers(n))

\* link requests of both users, while an admin disables or enables user 1
LinkNext ==
  \/ \E l \in Linkers : Link(l)
  \/ \E st \in {"active", "disabled"} : AdminUpdateUserStatus(1, 1, st)

SpecLink == Init /\ [][LinkNext]_vars

\* the admin balance endpoint called with every kind of credential
AdminNext ==
  \E p \in Procs :
    \/ \E c \in Credentials, u \in Users, a \in AdminAmounts : AdminBalanceRequest(p, c, u, a)
    \/ AdminBalanceUpdate(p)
    \/ AdminBalanceRecord(p)
    \/ Return(p)

SpecAdmin == Init /\ [][AdminNext]_vars

\* user 1 sends requests while time passes
RateNext ==
  \/ ApiRequest(1)
  \/ Tick

SpecRate == Init /\ [][RateNext]_vars

Next ==
  BillingNext \/ TrafficNext \/ SubscriptionNext \/ NodeNext \/ LinkNext \/ AdminNext \/ RateNext
          \/ NodeAdminNext \/ PurchaseNext \/ PackageNext \/ QuotaNext
  \/ UsersNext \/ LimiterNext \/ ReportNext

Spec == Init /\ [][Next]_vars

(* ------------------------------ properties ----------------------------- *)
Quiescent == \A p \in Procs : pc[p] = "idle"

ReferralRows(referrer, referee) ==
  {i \in DOMAIN coin_transactions :
     /\ coin_transactions[i].type = "referral"
     /\ coin_transactions[i].user_id = referrer
     /\ coin_transactions[i].referee = referee}

UserPackagesOf(order_id) ==
  {j \in DOMAIN user_packages : user_packages[j].order_id = order_id}

\* C1: whatever the interleaving of purchases, admin balance adjustments,
\* add_coins, deduct_coins and rebates, no user's coin_balance is below zero.
CoinBalanceNonNegative == \A u \in Users : users[u].coin_balance >= 0

\* the operations that returned Ok have taken a user's whole balance
BalanceDrained ==
  \E u \in Users : users[u].coin_balance = 0 /\ reported[u] = -InitBalance

\* C2: once all balance-changing operations have returned, every user's
\* balance is the starting balance plus the deltas of the operations that
\* returned Ok (no update is lost).
NoLostBalanceUpdate ==
  Quiescent => \A u \in Users : users[u].coin_balance = InitBalance + reported[u]

\* C3: once all balance-changing operations have returned, the change of a
\* user's balance equals the sum of the amounts of the user's
\* coin_transactions rows.
LedgerMatchesBalance ==
  Quiescent =>
    \A u \in Users :
      users[u].coin_balance - InitBalance = SumAmounts(coin_transactions, u)

\* C4: the commit of a purchase takes the package price off the balance the
\* user had right before it (which is the balance read under the row lock)
\* and adds the package's traffic_amount to the quota the user had.
PurchaseDebitsPriceAndCreditsQuota ==
  [][\A p \in Procs :
       (pc[p] = "p_commit" /\ pc'[p] = "p_rebate") =>
         LET u == loc[p].user_id
             package == PackageTable[loc[p].package_id]
         IN  /\ users[u].coin_balance = loc[p].coin_balance
             /\ users[u].traffic_quota = loc[p].traffic_quota
             /\ users'[u].coin_balance = users[u].coin_balance - package.price
             /\ users'[u].traffic_quota = users[u].traffic_quota + package.traffic_amount]_vars

\* a second purchase of the same user has committed
SecondPurchaseCommitted ==
  \E p \in Procs :
    /\ pc[p] = "p_rebate"
    /\ CompletedOrders(loc[p].user_id) = 2
    /\ users[loc[p].user_id].traffic_quota > PackageTable[loc[p].package_id].traffic_amount

\* C5: every completed order has exactly one user_packages row, whose
\* traffic_quota is the package's traffic_amount, and every user_packages
\* row belongs to a completed order.
CompletedOrderHasOneUserPackage ==
  /\ \A i \in DOMAIN orders :
       orders[i].status = "completed" =>
         /\ Cardinality(UserPackagesOf(orders[i].id)) = 1
         /\ \A j \in UserPackagesOf(orders[i].id) :
              user_packages[j].traffic_quota =
                PackageTable[orders[i].package_id].traffic_amount
  /\ \A j \in DOMAIN user_packages :
       \E i \in DOMAIN orders :
         /\ orders[i].id = user_packages[j].order_id
         /\ orders[i].status = "completed"

\* one order is completed while another purchase holds a pending order
\* and its user package in an open transaction
CompletedAndPendingOrder ==
  /\ \E i \in DOMAIN orders : orders[i].status = "completed"
  /\ \E p \in Procs :
       /\ Len(tx[p].orders) = 1
       /\ tx[p].orders[1].status = "pending"
       /\ Len(tx[p].user_packages) = 1

\* C6: no step of a purchase other than its commit changes a committed row;
\* so a purchase that is rejected or fails has changed no balance, quota,
\* order, coin transaction or user package.
FailedPurchaseChangesNothing ==
  [][\A p \in Procs :
       (/\ loc'[p].op = "purchase"
        /\ pc'[p] # pc[p]
        /\ pc'[p] \notin {"p_rebate", "done"}) => UNCHANGED dbVars]_vars

\* a purchase has failed after its pending order, its debit and its quota
\* credit were written
PurchaseFailedAfterWrites ==
  \E p \in Procs :
    /\ pc[p] = "failed"
    /\ loc[p].op = "purchase"
    /\ loc[p].order_id # 0
    /\ users[loc[p].user_id].coin_balance = InitBalance
    /\ orders = <<>>

\* C7: when the rebate step of a referee's first completed order has run
\* without error (referrer set and not the referee, floor(price * 0.10) >= 1),
\* the referrer has exactly one referral row for the referee, of that
\* amount, and the referrer's balance has grown by it.
FirstOrderCreditsReferrer ==
  [][\A p \in Procs :
       LET u == loc[p].user_id
           r == users[u].referred_by
           amount == RebateAmount(PackageTable[loc[p].package_id].price)
       IN  (/\ pc[p] = "p_rebate"
            /\ pc'[p] = "done"
            /\ loc'[p].rebate = "ok"
            /\ r # NoUser
            /\ r # u
            /\ amount >= 1
            /\ CompletedOrders(u) = 1)
           => /\ Cardinality(ReferralRows(r, u)') = 1
              /\ \A i \in ReferralRows(r, u)' : coin_transactions'[i].amount = amount
              /\ users'[r].coin_balance = users[r].coin_balance + amount]_vars

TrafficUsedNeverDecreases ==
  [][\A u \in Users : users'[u].traffic_used >= users[u].traffic_used]_vars

RECURSIVE SumTraffic(_, _)
\* sum of upload + download over the entries with an id in ids that name user u
SumTraffic(ids, u) ==
  IF ids = {} THEN 0
  ELSE LET id == CHOOSE i \in ids : TRUE
       IN  (IF stream[id].user_id = u /\ stream[id].parses
            THEN stream[id].upload + stream[id].download ELSE 0)
           + SumTraffic(ids \ {id}, u)

\* C10: between batches, what the aggregator has added to a user's
\* traffic_used is the sum of upload + download over the user's
\* acknowledged tuples.
AppliedEqualsAcknowledged ==
  (\A w \in Workers : wpc[w] = "read") =>
    \A u \in Users : applied[u] = SumTraffic(acked, u)

\* C11: while a batch is being applied, if the UPDATE of some user of the
\* batch has failed, the batch has changed no user's traffic_used.
FailedBatchChangesNothing ==
  \A w \in Workers : wloc[w].errors # {} => wloc[w].updated = {}

\* C12: every well-formed tuple appended to the stream is eventually added
\* to its user's traffic_used.
WellFormedTupleEventuallyAdded ==
  \A i \in 1..MaxStream :
    (i <= Len(stream) /\ stream[i].parses) ~> (times[i] >= 1)

\* every appended entry was delivered and no worker is inside a batch
AllConsumed ==
  /\ delivered = Len(stream)
  /\ \A w \in Workers : wpc[w] = "read"

\* C13: once the workers have consumed the whole stream, every well-formed
\* tuple was added exactly once, so what the aggregator added to a user's
\* traffic_used is the sum of upload + download over all of the user's tuples.
EachTupleAppliedExactlyOnce ==
  AllConsumed =>
    /\ \A i \in DOMAIN stream : stream[i].parses => times[i] = 1
    /\ \A u \in Users : applied[u] = SumTraffic(DOMAIN stream, u)

\* the step by which request task f answers from the cache
ServesFromCache(f) == fpc[f] = "f_idle" /\ fpc'[f] = "f_respond" /\ floc'[f].cached = "hit"

\* C14 (as claimed): a body served from the cache was materialized from
\* database state read at most 300 seconds before it is served.
ServedBodyReadWithinTtl ==
  [][\A f \in Fetchers :
       ServesFromCache(f) => now - cache[floc'[f].token].read_at <= SubscriptionTtl]_vars

\* C14 (amended): a body served from the cache was stored in the cache at
\* most 300 seconds before it is served.
ServedBodyStoredWithinTtl ==
  [][\A f \in Fetchers :
       ServesFromCache(f) => now - cache[floc'[f].token].stored_at <= SubscriptionTtl]_vars

\* a disabled user's earlier configuration is answered from the cache some
\* time after it was stored
StaleBodyServedToDisabledUser ==
  \E f \in Fetchers :
    /\ fpc[f] = "f_respond"
    /\ floc[f].cached = "hit"
    /\ floc[f].body.kind = "clash"
    /\ users[floc[f].user_id].status = "disabled"
    /\ cache[floc[f].token].present
    /\ now > cache[floc[f].token].stored_at

\* C15: a fetch is not answered with a body that was cached before a node
\* update that has completed.
NodeUpdateInvalidatesCachedBody ==
  [][\A f \in Fetchers :
       ServesFromCache(f) => cache[floc'[f].token].updates_seen = node_updates]_vars

\* the task log_access_async spawns for the response of request task f
LogTaskOf(l) == [n |-> l.n, user_id |-> l.user_id, status |-> l.log]

\* C16: on a cache miss, when the user row read by the fetch has status
\* disabled, the fetch answers 401 with an error body and no configuration,
\* and spawns the access log with status disabled.
DisabledUserGets401 ==
  [][\A f \in Fetchers :
       (/\ fpc[f] = "f_user"
        /\ fpc'[f] # "f_user"
        /\ ~floc'[f].db_error
        /\ users[floc[f].user_id].status = "disabled")
       => /\ fpc'[f] = "f_respond"
          /\ floc'[f].http = 401
          /\ floc'[f].body = ErrorBody
          /\ floc'[f].log = "disabled"
          /\ LogTaskOf(floc'[f]) \in tasks' \ tasks
          /\ UNCHANGED cache]_vars

\* a fetch that missed the cache has answered 401 to a disabled user
DisabledUserRejected ==
  \E f \in Fetchers :
    /\ fpc[f] = "f_respond"
    /\ floc[f].cached \in {"miss", "error"}
    /\ floc[f].user_status = "disabled"
    /\ floc[f].http = 401

\* C17: on a cache miss, when the user is active and the row read by
\* check_traffic_quota has traffic_used >= traffic_quota, the fetch answers
\* 200 with the empty-config sentinel, spawns the access log with status
\* quota_exceeded and caches nothing (so a repeated fetch does the same).
OverQuotaGetsEmptyConfig ==
  [][\A f \in Fetchers :
       (/\ fpc[f] = "f_quota"
        /\ fpc'[f] # "f_quota"
        /\ users[floc[f].user_id].traffic_used >= users[floc[f].user_id].traffic_quota)
       => /\ floc[f].user_status = "active"
          /\ fpc'[f] = "f_respond"
          /\ floc'[f].http = 200
          /\ floc'[f].body = EmptyConfig
          /\ floc'[f].log = "quota_exceeded"
          /\ LogTaskOf(floc'[f]) \in tasks' \ tasks
          /\ UNCHANGED cache]_vars

\* the second fetch of a user over quota is answered like the first
RepeatedFetchOverQuota ==
  \E f \in Fetchers :
    /\ fpc[f] = "f_respond"
    /\ floc[f].n = 2
    /\ floc[f].log = "quota_exceeded"
    /\ floc[f].body = EmptyConfig
    /\ ~floc[f].db_error
    /\ \/ \E t \in tasks : t.n = 1 /\ t.status = "quota_exceeded"
       \/ [user_id |-> floc[f].user_id, status |-> "quota_exceeded"] \in access_logs

\* status and body of the resolution from the rows the handler has read
Resolution(l) ==
  IF l.user_id = NoUser THEN <<404, ErrorBody>>
  ELSE IF l.user_status = "disabled" THEN <<401, ErrorBody>>
  ELSE IF l.has_traffic = "no" THEN <<200, EmptyConfig>>
  ELSE IF l.user_package \in {"none", "exhausted"} THEN <<200, EmptyConfig>>
  ELSE <<200, ClashConfig(l.online[1])>>

\* C18: a response that is not answered from the cache (the key is absent,
\* the cache read or write fails, the cache was emptied) has the status and
\* body of the resolution from the relational store.
CacheFaultKeepsResolution ==
  \A f \in Fetchers :
    (fpc[f] = "f_respond" /\ floc[f].cached # "hit" /\ ~floc[f].db_error)
    => <<floc[f].http, floc[f].body>> = Resolution(floc[f])

\* a fetch whose cache read and cache write both failed has answered with
\* the configuration
AnsweredWithoutCache ==
  \E f \in Fetchers :
    /\ fpc[f] = "f_respond"
    /\ floc[f].cached = "error"
    /\ floc[f].cache_error
    /\ floc[f].http = 200
    /\ floc[f].body.kind = "clash"

\* the response that goes with each access-log status
ResponseMatchesLog(l) ==
  CASE l.log = "success" -> l.http = 200 /\ l.body.kind = "clash"
    [] l.log = "disabled" -> l.http = 401 /\ l.body = ErrorBody
    [] l.log \in {"quota_exceeded", "expired"} -> l.http = 200 /\ l.body = EmptyConfig
    [] l.log = "failed" -> l.http = 500 /\ l.body = ErrorBody
    [] OTHER -> l.http \in {404, 500} /\ l.body = ErrorBody

\* C19: the response a fetch builds is the one its handler decided,
\* whatever becomes of the access-log write, and a step of an access-log
\* task (its write succeeding or failing) changes no handler's position or
\* response.
LoggingNeverAffectsResponse ==
  [][/\ \A f \in Fetchers :
          (fpc[f] # "f_respond" /\ fpc'[f] = "f_respond") => ResponseMatchesLog(floc'[f])
     /\ (tasks' # tasks /\ tasks' \subseteq tasks) => UNCHANGED <<fpc, floc>>]_vars

\* the handler has returned while the access-log write of its response is
\* still pending
ReturnedBeforeLogWritten ==
  /\ \A f \in Fetchers : fpc[f] = "f_idle"
  /\ \E t \in tasks : t.n = fetches

\* C20: the number of detached tasks in flight never exceeds the budget.
InFlightTasksBounded == Cardinality(tasks) <= MaxInFlight

\* C21: when a running agent holds an older revision of its node than the
\* one an admin update has written, the agent eventually fetches the new
\* revision and applies it.
UpdatedConfigEventuallyApplied ==
  \A n \in NodeIds :
    (agent[n].started /\ agent[n].fetched < node_rev[n])
      ~> (agent[n].fetched = node_rev[n] /\ agent[n].applied = node_rev[n])

\* the step is a request to a node endpoint whose (node_id, secret) pair
\* matches no stored node, and its queries succeed
MismatchedNodeRequest ==
  /\ node_resp' # node_resp
  /\ node_resp'.secret # NodeSecret(node_resp'.node_id)
  /\ ~node_resp'.db_error

\* C22: a node-config request or heartbeat whose pair matches no stored
\* node is answered 401 without node configuration or user list and changes
\* no row and no cache entry.
MismatchedNodeRejected ==
  [][MismatchedNodeRequest =>
       /\ node_resp'.http = 401
       /\ node_resp'.node = NoNode
       /\ node_resp'.users = {}
       /\ node_resp'.rev = -1
       /\ UNCHANGED <<nodes, node_rev, cache, dbVars, subscriptions>>]_vars

\* a heartbeat with the wrong secret was rejected while a user was active
WrongSecretHeartbeatRejected ==
  /\ node_resp.endpoint = "heartbeat"
  /\ node_resp.secret # NodeSecret(node_resp.node_id)
  /\ node_resp.http = 401
  /\ ActiveUsers # {}

\* C23: in every state, a user with a subscription is in the users list of
\* the node-config endpoint if and only if a cache-miss fetch of the user's
\* /sub/{token} in that state answers with a materialized configuration.
NodeListAgreesWithFetch ==
  \A u \in Users :
    subscriptions[u] # NoToken => (u \in ActiveUsers <=> FetchOutcome(u) = "success")

\* C24: every token the link endpoint has returned to a user is the token
\* stored for that user, so all calls of one user return the same token.
ReturnedTokenStaysStored ==
  \A r \in links : subscriptions[r.user_id] = r.token

\* C25: an admin request with the valid token of a non-admin user is
\* answered 403; 401 is answered only to a missing, invalid or expired
\* token; a request answered by the authorization check changes no row.
NonAdminGets403 ==
  [][rejected' # rejected =>
       /\ rejected'.credential = "user" => rejected'.http = 403
       /\ rejected'.http = 401 => rejected'.credential \in {"missing", "invalid", "expired"}
       /\ UNCHANGED <<dbVars, nodes, cache, subscriptions>>]_vars

\* C26: within a window of 60 seconds at most 60 requests of one user reach
\* the handlers.
AtMost60PerWindow == \A u \in Users : let_through[u].count <= RateLimit

\* C27: a step that acknowledges an id of a batch belongs to a batch in
\* which no user's update has failed.
AckOnlyAfterCleanBatch ==
  [][\A w \in Workers :
       (wpc[w] = "ack" /\ wloc'[w] # wloc[w] /\ acked' # acked) => wloc[w].errors = {}]_vars

\* C28: a tuple that fails field parsing, delivered in a batch that was
\* therefore dropped without acknowledgement, is delivered again on a later
\* read (or acknowledged).
MalformedBatchRedelivered ==
  \A i \in 1..MaxStream :
    (i \in pending /\ ~stream[i].parses /\ delivery_count[i] = 1)
      ~> (delivery_count[i] >= 2 \/ i \in acked)

\* C30: the proxies of a freshly materialized document are the nodes with
\* include_in_clash = true, in order of ascending sort_order and then name,
\* whatever their status.
ProxiesAreClashNodes ==
  \A f \in Fetchers :
    (fpc[f] = "f_respond" /\ floc[f].cached # "hit" /\ floc[f].body.kind = "clash")
    => floc[f].body.proxies = list_clash_nodes

\* the user's entitlements that are active, not expired and not exhausted
Eligible(u) ==
  {i \in ValidPackages(u) : user_packages[i].traffic_used < user_packages[i].traffic_quota}

\* C29: when a cache-miss fetch of an active user with user-level traffic
\* left looks for the current entitlement, it goes on to materialize the
\* configuration if and only if the user has an active, unexpired,
\* unexhausted entitlement; without one it answers the empty-config sentinel
\* and logs expired.
CurrentPackageDecides ==
  [][\A f \in Fetchers :
       (fpc[f] = "f_package" /\ fpc'[f] # "f_package" /\ ~floc'[f].db_error)
       => IF Eligible(floc[f].user_id) # {}
          THEN fpc'[f] = "f_nodes"
          ELSE /\ fpc'[f] = "f_respond"
               /\ floc'[f].http = 200
               /\ floc'[f].body = EmptyConfig
               /\ floc'[f].log = "expired"]_vars

\* C31: every admin mutation of a node row (create, update or delete) issues,
\* in the same request and after the row is written, a PUBLISH on the
\* channel node:config:update of a reload message that carries the node's id
NodeMutationPublishes ==
  [][\A n \in NodeIds :
       (node_updates' # node_updates /\ (nodes'[n] # nodes[n] \/ node_rev'[n] # node_rev[n]))
       => published' = Append(published, [channel |-> <<"node:config:update">>,
                                          node_id |-> n])]_vars

\* no heartbeat and no read of the node list is under way
HeartbeatsQuiescent ==
  /\ \A h \in Heartbeaters : hpc[h] \in {"h_idle", "h_done"}
  /\ rpc = "r_idle"

\* C32: a heartbeat whose UPDATE changed the stored status of its node has
\* sent DEL nodes:active by the time it has answered, and once every
\* heartbeat and read has completed a list held under nodes:active is the
\* list of the nodes that are online now
StatusChangeInvalidatesActiveNodes ==
  /\ \A h \in Heartbeaters :
       (hpc[h] = "h_done" /\ hloc[h].changed) => hloc[h].invalidated
  /\ (HeartbeatsQuiescent /\ LiveNodeList.present)
       => LiveNodeList.list = list_nodes_by_status("online")

\* C33: when process_referral_rebate fails after the purchase has committed,
\* no row changes, the order of the purchase is completed with its user
\* package and its debit recorded, and the purchase goes on to answer success
RebateFailureKeepsPurchase ==
  [][\A p \in Procs :
       (pc[p] = "p_rebate" /\ loc'[p].rebate = "error")
       => /\ pc'[p] = "done"
          /\ UNCHANGED dbVars
          /\ \E i \in DOMAIN orders' :
               /\ orders'[i].id = loc[p].order_id
               /\ orders'[i].user_id = loc[p].user_id
               /\ orders'[i].status = "completed"
          /\ \E i \in DOMAIN user_packages' :
               /\ user_packages'[i].order_id = loc[p].order_id
               /\ user_packages'[i].user_id = loc[p].user_id
          /\ \E i \in DOMAIN coin_transactions' :
               /\ coin_transactions'[i].user_id = loc[p].user_id
               /\ coin_transactions'[i].type = "purchase"
               /\ coin_transactions'[i].amount = -loc[p].amount]_vars

\* the first purchase of the referred user 2 has answered success although
\* its rebate failed: the referrer got nothing
FirstPurchaseDoneWithoutRebate ==
  \E p \in Procs :
    /\ pc[p] = "done"
    /\ loc[p].op = "purchase"
    /\ loc[p].user_id = 2
    /\ loc[p].rebate = "error"
    /\ ReferralRows(1, 2) = {}

\* the purchase of request p has ended (before or after its rebate step)
PurchaseEnded(p) == loc[p].op = "purchase" /\ pc[p] \in {"p_rebate", "done", "failed"}

\* C34: of two purchases of one user that both end, for active packages of
\* which the balance pays either and not both, exactly one succeeds and the
\* other is rejected at the balance test, without an order row
ConcurrentPurchasesSerialized ==
  \A p, q \in Procs :
    (/\ p # q
     /\ PurchaseEnded(p) /\ PurchaseEnded(q)
     /\ loc[p].user_id = loc[q].user_id
     /\ PackageTable[loc[p].package_id].is_active
     /\ PackageTable[loc[q].package_id].is_active
     /\ loc[p].amount <= LowBalance /\ loc[q].amount <= LowBalance
     /\ loc[p].amount + loc[q].amount > LowBalance)
    => /\ (pc[p] = "failed") # (pc[q] = "failed")
       /\ Cardinality({i \in DOMAIN orders : orders[i].user_id = loc[p].user_id}) = 1
       /\ users[loc[p].user_id].coin_balance
            = LowBalance - (IF pc[p] = "failed" THEN loc[q].amount ELSE loc[p].amount)

\* both requests bought package 1 for user 1: request 1 arrived first and
\* was rejected, so request 2 committed its debit between the arrival of
\* request 1 and its balance test
SecondPurchaseRejected ==
  /\ PurchaseEnded(1) /\ PurchaseEnded(2)
  /\ loc[1].user_id = 1 /\ loc[2].user_id = 1
  /\ loc[1].package_id = 1 /\ loc[2].package_id = 1
  /\ pc[1] = "failed" /\ pc[2] # "failed"

\* C35: when a purchase inserts its order row, the package is active and the
\* amount of the row, which is the amount debited, is the price the
\* packages row has at that moment
OrderAmountIsCurrentPrice ==
  [][\A p \in Procs :
       (pc[p] = "p_order" /\ pc'[p] = "p_debit")
       => /\ packages[loc[p].package_id].is_active
          /\ tx'[p].orders[1].amount = packages[loc[p].package_id].price]_vars

\* C36: while admin requests set only traffic_quota, traffic_used of a user
\* is what the aggregator has added to it: no admin write takes an
\* increment of the aggregator back
QuotaUpdateKeepsTrafficUsed ==
  \A u \in Users : users[u].traffic_used = applied[u]

\* C37: a reader of active_users gets the set as the last completed sync of
\* its agent left it (the set from before a sync that is under way), and a
\* sync whose fetch fails changes neither the set nor that complete set
SyncIsAtomicToReaders ==
  [][/\ (user_reads' # user_reads) => observed'.users = complete[observed'.node]
     /\ (syncs' # syncs /\ spc' = spc)
          => (active_users' = active_users /\ complete' = complete)]_vars

\* a reader has returned the two users of the first sync of agent 1, and the
\* second sync of that agent holds the lock over the set it has cleared
ReaderSawCompleteSetAroundSync ==
  /\ observed = [node |-> 1, users |-> Users]
  /\ complete[1] = Users
  /\ users_lock[1]
  /\ spc[1] = "s_insert"
  /\ active_users[1] = {}

\* C38: a key rate_limit:user:{id} that holds a count has a time to live, so
\* that the count starts again no later than 60 seconds after its first INCR
RateLimitKeyExpires ==
  \A u \in Users :
    rate_limit[u].count > 0
    => (rate_limit[u].expires_at # 0 /\ rate_limit[u].expires_at <= now + RateWindow)

\* bytes of user u in the entries of traffic_stream
StreamBytes(u) == SumTraffic(1..Len(stream), u)

\* bytes of user u an agent holds in a traffic_data it is still appending
HeldBytes(u) == tloc[1][u] + tloc[2][u]

\* C39: every byte the agents have read from their engines with reset = true
\* is in an entry of traffic_stream or in the traffic_data of a report cycle
\* that is still appending
NoConsumptionLost ==
  \A u \in Users : collected[u] = StreamBytes(u) + HeldBytes(u)

====
